---------------------------- MODULE Spec2Model ----------------------------
(***************************************************************************)
(* A model of the YASTS subtitle translator (artoru/YASTS).                *)
(*                                                                         *)
(* Texts are sequences of characters, one string per character, so that    *)
(* strip, split, startswith and the two regular expressions of grouping.py *)
(* are computed character by character as Python computes them.           *)
(*                                                                         *)
(*   SpecGroup   group_subtitles (grouping.py): the line scan, the tiny-   *)
(*               group merge pass and the renumbering.                     *)
(*   SpecWindow  make_windows (windowing.py): the budget check and the     *)
(*               window loop.                                              *)
(*   SpecGateway call_llama_with_retries (llama_client.py): the retried    *)
(*               call and the extraction of the response content.          *)
(***************************************************************************)
EXTENDS Integers, Sequences, FiniteSets, TLC

VARIABLES
    \* ---- group_subtitles (grouping.py) ----
    items,          \* the input: a sequence of [Position, Line]
    settings,       \* the Settings fields grouping reads
    gpc,            \* "scan" | "merge" | "done": where group_subtitles is
    idx,            \* number of items the scan loop has consumed
    groups,         \* the groups list (after the merge pass: its result)
    cur_positions,  \* the accumulation: positions
    cur_parts,      \*                   line texts
    cur_chars,      \*                   character count
    gid,            \* the next fresh group id
    prev_line,      \* the previous line, None before the first
    merged,         \* _merge_tiny_groups: the merged list being built
    mi,             \* _merge_tiny_groups: number of groups consumed
    \* ---- make_windows (windowing.py) ----
    wgroups,            \* the groups argument
    max_window_chars,   \* the budget argument
    pre_groups,         \* context groups wanted before the focus
    post_groups,        \* context groups wanted after the focus
    wpc,                \* "start" | "loop" | "done" | "error"
    win_i,              \* the loop index i: first unconsumed group (0-based)
    windows,            \* the windows list
    \* ---- call_llama_with_retries (llama_client.py) ----
    gw_retries,     \* the retries argument
    gw_pc,          \* "call" | "sleep" | "returned" | "raised"
    gw_attempt,     \* the loop variable attempt
    gw_last_exc,    \* last_exc, None before the first failure
    gw_delay,       \* the delay of the latest sleep, in quarter seconds
    gw_result,      \* the returned (raw, content), None unless returned
    gw_raised,      \* the exception raised to the caller, None unless raised
    gw_log,         \* history: the outcome of every call_llama attempt
    \* ---- extract_group_translations (json_parse.py) ----
    ex_obj,         \* the obj argument: the recovered JSON object
    ex_expected,    \* the expected_focus_ids argument
    ex_pc,          \* "start" | "loop" | "done"
    ex_i,           \* number of elements of translations consumed
    ex_out,         \* the dict out, a function from group ids to lines
    \* ---- split_group_translation_to_positions (splitback.py) ----
    sp_positions,       \* the positions argument
    sp_text,            \* the translated_group_text argument
    sp_input_by_pos,    \* the input_by_pos argument
    sp_settings,        \* the Settings fields splitback reads
    sp_durations,       \* the duration_by_pos argument, {} standing for None too
    sp_pc,              \* "start" | "greedy" | "zip" | "done"
    sp_targets,         \* targets
    sp_words,           \* split_greedy: words
    sp_wi,              \* split_greedy: wi
    sp_chunks,          \* split_greedy: chunks
    sp_result,          \* the returned dict
    sp_left,            \* _targets_weighted_by_duration: budget, or over
    sp_dir,             \* 1 in the grow loop, -1 in the shrink loop, else 0
    \* ---- _translate_entire_window (pipeline.py) ----
    tr_focus,           \* window.focus
    tr_max_retries,     \* settings.max_retries_per_window
    tr_shrink,          \* settings.shrink_focus_on_retry
    tr_pc,              \* "outer" | "request" | "done" | "failed"
    tr_focus_remaining, \* focus_remaining
    tr_cur_focus,       \* cur_focus, the chunk
    tr_attempt,         \* attempt
    tr_out_by_pos,      \* out_by_pos, the window result
    tr_translated,      \* translated_focus_groups
    tr_covered,         \* history: per group id, the successful chunks that held it
    tr_last,            \* history: the latest request, its response and outcome
    tr_ctx,             \* window.context_before and window.context_after
    tr_fails,           \* history, kept when counted: failed requests in a
                        \* row, failed and successful requests in all
    \* ---- translate_items_with_windows (pipeline.py) ----
    sc_concurrency,     \* settings.concurrency
    sc_windows,         \* windows: the focus of every window
    sc_max_retries,     \* settings.max_retries_per_window
    sc_shrink,          \* settings.shrink_focus_on_retry
    sc_hard,            \* the model's behaviour: per group id, 0 | 1 | 2
    sc_pc,              \* "start" | "running" | "returned" | "raised"
    sc_sem,             \* the value of the semaphore sem
    sc_task,            \* per window, the state of its run_one task
    sc_finished,        \* finished tasks as_completed has yet to hand out
    sc_out_by_pos,      \* out_by_pos, the aggregate map
    sc_result,          \* the returned map, Nothing unless returned
    \* ---- parse_model_json (json_parse.py) ----
    pj_obj,             \* the object the model meant to write
    pj_how,             \* how the model wrote it
    pj_text,            \* the model_text argument
    pj_pc,              \* "start" | "full" | "balance_full" | "substring" |
                        \* "balance_sub" | "repair" | "done"
    pj_s,               \* s, the cleaned text
    pj_sub,             \* sub
    pj_result           \* what parse_model_json returned or raised

gvars == <<items, settings, gpc, idx, groups, cur_positions, cur_parts,
           cur_chars, gid, prev_line, merged, mi>>
wvars == <<wgroups, max_window_chars, pre_groups, post_groups, wpc, win_i,
           windows>>
gwvars == <<gw_retries, gw_pc, gw_attempt, gw_last_exc, gw_delay, gw_result,
            gw_raised, gw_log>>
exvars == <<ex_obj, ex_expected, ex_pc, ex_i, ex_out>>
spvars == <<sp_positions, sp_text, sp_input_by_pos, sp_settings, sp_durations,
            sp_pc, sp_targets, sp_words, sp_wi, sp_chunks, sp_result,
            sp_left, sp_dir>>
trvars == <<tr_focus, tr_max_retries, tr_shrink, tr_pc, tr_focus_remaining,
            tr_cur_focus, tr_attempt, tr_out_by_pos, tr_translated, tr_covered,
            tr_last, tr_ctx, tr_fails>>
scvars == <<sc_concurrency, sc_windows, sc_max_retries, sc_shrink, sc_hard,
            sc_pc, sc_sem, sc_task, sc_finished, sc_out_by_pos, sc_result>>
pjvars == <<pj_obj, pj_how, pj_text, pj_pc, pj_s, pj_sub, pj_result>>
vars == <<gvars, wvars, gwvars, exvars, spvars, trvars, scvars, pjvars>>

\* the variables a component's actions leave alone
not_g == <<wvars, gwvars, exvars, spvars, trvars, scvars, pjvars>>
not_w == <<gvars, gwvars, exvars, spvars, trvars, scvars, pjvars>>
not_gw == <<gvars, wvars, exvars, spvars, trvars, scvars, pjvars>>
not_ex == <<gvars, wvars, gwvars, spvars, trvars, scvars, pjvars>>
not_sp == <<gvars, wvars, gwvars, exvars, trvars, scvars, pjvars>>
not_tr == <<gvars, wvars, gwvars, exvars, spvars, scvars, pjvars>>
not_sc == <<gvars, wvars, gwvars, exvars, spvars, trvars, pjvars>>
not_pj == <<gvars, wvars, gwvars, exvars, spvars, trvars, scvars>>

None == <<"<None>">>

\* the empty dict
EmptyMap == [k \in {} |-> None]

DefaultSettings ==
    [max_group_lines |-> 8, max_group_chars |-> 360,
     min_group_text_chars |-> 10, min_group_words |-> 2]

\* the defaults of the Settings fields splitback reads
DefaultSplitSettings == [split_max_line_chars |-> 42, min_chunk_chars |-> 10]

\* a component that is not running
GroupIdle ==
    /\ items = <<>> /\ settings = DefaultSettings /\ gpc = "idle" /\ idx = 0
    /\ groups = <<>> /\ cur_positions = <<>> /\ cur_parts = <<>> /\ cur_chars = 0
    /\ gid = 1 /\ prev_line = None /\ merged = <<>> /\ mi = 0

WindowIdle ==
    /\ wgroups = <<>> /\ max_window_chars = 0 /\ pre_groups = 0 /\ post_groups = 0
    /\ wpc = "idle" /\ win_i = 0 /\ windows = <<>>

GatewayIdle ==
    /\ gw_retries = 0 /\ gw_pc = "idle" /\ gw_attempt = 0 /\ gw_last_exc = None
    /\ gw_delay = 0 /\ gw_result = None /\ gw_raised = None /\ gw_log = <<>>

ExtractIdle ==
    /\ ex_obj = [t |-> "dict", kv |-> <<>>] /\ ex_expected = <<>> /\ ex_pc = "idle" /\ ex_i = 0
    /\ ex_out = EmptyMap

SplitIdle ==
    /\ sp_positions = <<>> /\ sp_text = <<>> /\ sp_input_by_pos = EmptyMap
    /\ sp_settings = DefaultSplitSettings /\ sp_durations = EmptyMap
    /\ sp_pc = "idle" /\ sp_targets = <<>> /\ sp_words = <<>> /\ sp_wi = 0
    /\ sp_chunks = <<>> /\ sp_result = EmptyMap
    /\ sp_left = 0 /\ sp_dir = 0

\* no request made yet
NoRequest == [expected |-> <<>>, context_after |-> <<>>, resp |-> [kind |-> "none"],
              ok |-> FALSE, payload |-> <<>>]

NoContext == [before |-> <<>>, after |-> <<>>]
NoFails == [counted |-> FALSE, run |-> 0, failed |-> 0, succeeded |-> 0]

TranslateIdle ==
    /\ tr_focus = <<>> /\ tr_max_retries = 0 /\ tr_shrink = FALSE /\ tr_pc = "idle"
    /\ tr_focus_remaining = <<>> /\ tr_cur_focus = <<>> /\ tr_attempt = 0
    /\ tr_out_by_pos = EmptyMap /\ tr_translated = 0 /\ tr_covered = EmptyMap
    /\ tr_last = NoRequest /\ tr_ctx = NoContext /\ tr_fails = NoFails

ScheduleIdle ==
    /\ sc_concurrency = 0 /\ sc_windows = <<>> /\ sc_max_retries = 0
    /\ sc_shrink = FALSE /\ sc_hard = <<>> /\ sc_pc = "idle" /\ sc_sem = 0
    /\ sc_task = <<>> /\ sc_finished = <<>> /\ sc_out_by_pos = EmptyMap
    /\ sc_result = <<>>

ParseIdle ==
    /\ pj_obj = [t |-> "null"] /\ pj_how = <<"none", 0>> /\ pj_text = <<>>
    /\ pj_pc = "idle" /\ pj_s = <<>> /\ pj_sub = <<>>
    /\ pj_result = [ok |-> FALSE, exc |-> "none"]

\* every component but the named one is not running
OnlyGroup ==
    /\ WindowIdle /\ GatewayIdle /\ ExtractIdle /\ SplitIdle /\ TranslateIdle
    /\ ScheduleIdle /\ ParseIdle
OnlyWindow ==
    /\ GroupIdle /\ GatewayIdle /\ ExtractIdle /\ SplitIdle /\ TranslateIdle
    /\ ScheduleIdle /\ ParseIdle
OnlyGateway ==
    /\ GroupIdle /\ WindowIdle /\ ExtractIdle /\ SplitIdle /\ TranslateIdle
    /\ ScheduleIdle /\ ParseIdle
OnlyExtract ==
    /\ GroupIdle /\ WindowIdle /\ GatewayIdle /\ SplitIdle /\ TranslateIdle
    /\ ScheduleIdle /\ ParseIdle
OnlySplit ==
    /\ GroupIdle /\ WindowIdle /\ GatewayIdle /\ ExtractIdle /\ TranslateIdle
    /\ ScheduleIdle /\ ParseIdle
OnlyTranslate ==
    /\ GroupIdle /\ WindowIdle /\ GatewayIdle /\ ExtractIdle /\ SplitIdle
    /\ ScheduleIdle /\ ParseIdle
OnlySchedule ==
    /\ GroupIdle /\ WindowIdle /\ GatewayIdle /\ ExtractIdle /\ SplitIdle
    /\ TranslateIdle /\ ParseIdle
OnlyParse ==
    /\ GroupIdle /\ WindowIdle /\ GatewayIdle /\ ExtractIdle /\ SplitIdle
    /\ TranslateIdle /\ ScheduleIdle


(***************************************************************************)
(* Bounds of the model.                                                    *)
(***************************************************************************)
MaxItems == 3
MaxGroups == 4
MaxContext == 2
MaxGwRetries == 2
MaxElems == 2
MaxPositions == 3
MaxWords == 3
MaxFocus == 4
MaxRetriesPerWindow == 2
MaxWindows == 3
MaxConcurrency == 2
MaxCut == 4

(***************************************************************************)
(* Characters and Python's string operations.                              *)
(***************************************************************************)
\* U+266A, the music marker, one character
Music == "<U+266A>"
\* U+2026, the horizontal ellipsis, one character
Ellipsis == "<U+2026>"

IsSpace(c) == c = " "

RECURSIVE LStrip(_)
LStrip(s) == IF s # <<>> /\ IsSpace(Head(s)) THEN LStrip(Tail(s)) ELSE s

RECURSIVE RStrip(_)
RStrip(s) ==
    IF s # <<>> /\ IsSpace(s[Len(s)]) THEN RStrip(SubSeq(s, 1, Len(s) - 1)) ELSE s

Strip(s) == RStrip(LStrip(s))

RECURSIVE SplitAcc(_, _, _)
SplitAcc(s, word, acc) ==
    IF s = <<>> THEN (IF word = <<>> THEN acc ELSE Append(acc, word))
    ELSE IF IsSpace(Head(s))
         THEN SplitAcc(Tail(s), <<>>, IF word = <<>> THEN acc ELSE Append(acc, word))
         ELSE SplitAcc(Tail(s), Append(word, Head(s)), acc)

\* str.split(): the words between runs of whitespace
Split(s) == SplitAcc(s, <<>>, <<>>)

RECURSIVE JoinSpace(_)
\* " ".join(parts)
JoinSpace(parts) ==
    IF parts = <<>> THEN <<>>
    ELSE IF Len(parts) = 1 THEN parts[1]
    ELSE parts[1] \o <<" ">> \o JoinSpace(Tail(parts))

StripEach(parts) == [k \in 1..Len(parts) |-> Strip(parts[k])]

IsPunctEnd(c) == c \in {".", "!", "?", Ellipsis}
IsCloser(c) == c \in {"\"", "'", ")", "]"}

RECURSIVE DropClosers(_)
DropClosers(s) ==
    IF s # <<>> /\ IsCloser(s[Len(s)]) THEN DropClosers(SubSeq(s, 1, Len(s) - 1)) ELSE s

\* PUNCT_END_RE.search(s): s ends in one or more of . ! ? ellipsis followed by
\* any number of closing quotes or brackets
PUNCT_END_RE(s) ==
    LET t == DropClosers(s) IN t # <<>> /\ IsPunctEnd(t[Len(t)])

\* MULTI_SPEAKER_RE.search(s): whitespace, dash, whitespace somewhere in s
MULTI_SPEAKER_RE(s) ==
    \E k \in 1..(Len(s) - 2) : IsSpace(s[k]) /\ s[k + 1] = "-" /\ IsSpace(s[k + 2])

_is_music_only(line) == Strip(line) = <<Music>>

_starts_dash(line) == LET s == LStrip(line) IN s # <<>> /\ Head(s) = "-"

_contains_multi_speaker(line) ==
    LET s0 == Strip(line)
        s == IF s0 # <<>> /\ Head(s0) = "-" THEN Tail(s0) ELSE s0
    IN  MULTI_SPEAKER_RE(s)

_ends_phrase(line) == PUNCT_END_RE(Strip(line))

(***************************************************************************)
(* Inputs of group_subtitles.                                              *)
(***************************************************************************)

SettingsSet ==
    { DefaultSettings,
      [max_group_lines |-> 2, max_group_chars |-> 360,
       min_group_text_chars |-> 10, min_group_words |-> 2],
      [max_group_lines |-> 8, max_group_chars |-> 12,
       min_group_text_chars |-> 4, min_group_words |-> 1] }

LinePool ==
    { <<Music>>,
      <<"-", " ", "H", "i", ".">>,
      <<"-", " ", "S", "o">>,
      <<"a", " ", "-", " ", "b">>,
      <<"-", " ", "A", ".", " ", "-", " ", "B", ".">>,
      <<" ", "o", "k", " ">>,
      <<"I", " ", "t", "h", "i", "n", "k", " ", "t", "h", "a", "t">>,
      <<"F", "i", "n", "e", ".", "\"">>,
      <<>> }

MkItems(f) == [k \in 1..Len(f) |-> [Position |-> k, Line |-> f[k]]]

FixtureItems ==
    MkItems(<< <<"H", "e", "l", "l", "o", ".">>,
               <<"-", " ", "Y", "e", "s", ".", " ", "-", " ", "N", "o", ".">>,
               <<Music>>,
               <<"I", " ", "t", "h", "i", "n", "k">>,
               <<"t", "h", "a", "t", "'", "s", " ", "f", "i", "n", "e", ".">> >>)

Inputs ==
    UNION { { MkItems(f) : f \in [1..n -> LinePool] } : n \in 0..MaxItems }
    \cup {FixtureItems}

(***************************************************************************)
(* group_subtitles: the scan.                                              *)
(***************************************************************************)
Cur ==
    [groups |-> groups, gid |-> gid, cur_positions |-> cur_positions,
     cur_parts |-> cur_parts, cur_chars |-> cur_chars]

\* mutant of flush: the accumulation is not cleared after the group is emitted
flush_no_reset(st) ==
    IF st.cur_positions = <<>> THEN st
    ELSE [st EXCEPT !.groups = Append(@,
                        [group_id |-> st.gid,
                         positions |-> st.cur_positions,
                         text |-> Strip(JoinSpace(StripEach(st.cur_parts)))]),
                    !.gid = @ + 1]

RECURSIVE JoinNoSpace(_)
JoinNoSpace(parts) ==
    IF parts = <<>> THEN <<>> ELSE Head(parts) \o JoinNoSpace(Tail(parts))

\* mutant of flush: the parts are joined with "" instead of " "
flush_join_nospace(st) ==
    IF st.cur_positions = <<>> THEN st
    ELSE [groups |-> Append(st.groups,
                        [group_id |-> st.gid,
                         positions |-> st.cur_positions,
                         text |-> Strip(JoinNoSpace(StripEach(st.cur_parts)))]),
          gid |-> st.gid + 1,
          cur_positions |-> <<>>, cur_parts |-> <<>>, cur_chars |-> 0]

flush(st) ==
    IF st.cur_positions = <<>> THEN st
    ELSE [groups |-> Append(st.groups,
                        [group_id |-> st.gid,
                         positions |-> st.cur_positions,
                         text |-> Strip(JoinSpace(StripEach(st.cur_parts)))]),
          gid |-> st.gid + 1,
          cur_positions |-> <<>>, cur_parts |-> <<>>, cur_chars |-> 0]

\* groups.append({"group_id": gid, "positions": [pos], "text": text}); gid += 1
Singleton(st, pos, text) ==
    [st EXCEPT !.groups = Append(@, [group_id |-> st.gid, positions |-> <<pos>>,
                                     text |-> text]),
               !.gid = @ + 1]

LineAt(k) == Strip(items[k].Line)
NextLineAt(k) == IF k + 1 <= Len(items) THEN Strip(items[k + 1].Line) ELSE <<>>

\* the condition of step 2 under which a two-speaker line is isolated
IsolateMultiSpeaker(line, next_line) ==
    /\ _contains_multi_speaker(line)
    /\ LET next_is_new_turn ==
               _starts_dash(next_line) \/ _is_music_only(next_line) \/ next_line = <<>>
           self_contained == _ends_phrase(line)
       IN  self_contained \/ next_is_new_turn

\* mutant of AddLine: no flush before a new dash-dialogue line
AddLine_no_turn(st, pos, line, prev, cfg) ==
    LET had == st.cur_positions # <<>>
        st2 == IF had /\ (\/ Len(st.cur_positions) >= cfg.max_group_lines
                          \/ (st.cur_chars + Len(line) + 1) > cfg.max_group_chars)
               THEN flush(st) ELSE st
        st3 == [st2 EXCEPT !.cur_positions = Append(@, pos),
                           !.cur_parts = Append(@, line),
                           !.cur_chars = @ + Len(line) + 1]
    IN  IF _ends_phrase(line) THEN flush(st3) ELSE st3

\* mutant of AddLine: no flush after a line that ends a phrase
AddLine_no_phrase_flush(st, pos, line, prev, cfg) ==
    LET had == st.cur_positions # <<>>
        prevs == IF prev = None THEN <<>> ELSE prev
        st1 == IF had /\ _starts_dash(line) /\ ~_starts_dash(prevs)
               THEN flush(st) ELSE st
        st2 == IF had /\ (\/ Len(st1.cur_positions) >= cfg.max_group_lines
                          \/ (st1.cur_chars + Len(line) + 1) > cfg.max_group_chars)
               THEN flush(st1) ELSE st1
    IN  [st2 EXCEPT !.cur_positions = Append(@, pos),
                    !.cur_parts = Append(@, line),
                    !.cur_chars = @ + Len(line) + 1]

\* steps 3 to 5 of the loop body
AddLine(st, pos, line, prev, cfg) ==
    LET had == st.cur_positions # <<>>
        prevs == IF prev = None THEN <<>> ELSE prev
        st1 == IF had /\ _starts_dash(line) /\ ~_starts_dash(prevs)
               THEN flush(st) ELSE st
        st2 == IF had /\ (\/ Len(st1.cur_positions) >= cfg.max_group_lines
                          \/ (st1.cur_chars + Len(line) + 1) > cfg.max_group_chars)
               THEN flush(st1) ELSE st1
        st3 == [st2 EXCEPT !.cur_positions = Append(@, pos),
                           !.cur_parts = Append(@, line),
                           !.cur_chars = @ + Len(line) + 1]
    IN  IF _ends_phrase(line) THEN flush(st3) ELSE st3

SetCur(st) ==
    /\ groups' = st.groups
    /\ gid' = st.gid
    /\ cur_positions' = st.cur_positions
    /\ cur_parts' = st.cur_parts
    /\ cur_chars' = st.cur_chars

\* loop body, step 1: a music line
ScanMusic ==
    /\ gpc = "scan" /\ idx < Len(items)
    /\ LET line == LineAt(idx + 1)
           pos == items[idx + 1].Position
       IN  /\ _is_music_only(line)
           /\ SetCur(Singleton(flush(Cur), pos, <<Music>>))
           /\ prev_line' = line
    /\ idx' = idx + 1
    /\ UNCHANGED <<items, settings, gpc, merged, mi, not_g>>

\* loop body, step 2: an isolated two-speaker line
ScanMultiSpeaker ==
    /\ gpc = "scan" /\ idx < Len(items)
    /\ LET line == LineAt(idx + 1)
           pos == items[idx + 1].Position
       IN  /\ ~_is_music_only(line)
           /\ IsolateMultiSpeaker(line, NextLineAt(idx + 1))
           /\ SetCur(Singleton(flush(Cur), pos, line))
           /\ prev_line' = line
    /\ idx' = idx + 1
    /\ UNCHANGED <<items, settings, gpc, merged, mi, not_g>>

\* loop body, steps 3 to 5: any other line
ScanAdd ==
    /\ gpc = "scan" /\ idx < Len(items)
    /\ LET line == LineAt(idx + 1)
           pos == items[idx + 1].Position
       IN  /\ ~_is_music_only(line)
           /\ ~IsolateMultiSpeaker(line, NextLineAt(idx + 1))
           /\ SetCur(AddLine(Cur, pos, line, prev_line, settings))
           /\ prev_line' = line
    /\ idx' = idx + 1
    /\ UNCHANGED <<items, settings, gpc, merged, mi, not_g>>

\* after the loop: the final flush, and the call of _merge_tiny_groups
ScanEnd ==
    /\ gpc = "scan" /\ idx = Len(items)
    /\ SetCur(flush(Cur))
    /\ gpc' = "merge"
    /\ merged' = <<>>
    /\ mi' = 0
    /\ UNCHANGED <<items, settings, idx, prev_line, not_g>>

(***************************************************************************)
(* _merge_tiny_groups.                                                     *)
(***************************************************************************)
IsTiny(text, cfg) ==
    \/ Len(text) < cfg.min_group_text_chars
    \/ Len(Split(text)) < cfg.min_group_words

\* prev["positions"].extend(g["positions"]); prev["text"] = (... + " " + text).strip()
MergeInto(prev, g, text) ==
    [prev EXCEPT !.positions = @ \o g.positions,
                 !.text = Strip(RStrip(@) \o <<" ">> \o text)]

\* mutant of MergeOne: the phrase-boundary check on the previous group is missing
MergeOne_no_boundary(mgd, g, cfg) ==
    LET text == Strip(g.text) IN
    IF text = <<Music>> THEN Append(mgd, g)
    ELSE IF _starts_dash(text) \/ _contains_multi_speaker(text) THEN Append(mgd, g)
    ELSE IF mgd = <<>> THEN Append(mgd, g)
    ELSE IF IsTiny(text, cfg)
         THEN [mgd EXCEPT ![Len(mgd)] = MergeInto(@, g, text)]
         ELSE Append(mgd, g)

\* one iteration of the loop over groups: the merged list after group g
MergeOne(mgd, g, cfg) ==
    LET text == Strip(g.text) IN
    IF text = <<Music>> THEN Append(mgd, g)
    ELSE IF _starts_dash(text) \/ _contains_multi_speaker(text) THEN Append(mgd, g)
    ELSE IF mgd = <<>> THEN Append(mgd, g)
    ELSE IF _ends_phrase(Strip(mgd[Len(mgd)].text)) THEN Append(mgd, g)
    ELSE IF IsTiny(text, cfg)
         THEN [mgd EXCEPT ![Len(mgd)] = MergeInto(@, g, text)]
         ELSE Append(mgd, g)

\* mutant of Renumber: enumerate without start=1
Renumber_from0(mgd) == [k \in 1..Len(mgd) |-> [mgd[k] EXCEPT !.group_id = k - 1]]

\* for i, gg in enumerate(merged, start=1): gg["group_id"] = i
Renumber(mgd) == [k \in 1..Len(mgd) |-> [mgd[k] EXCEPT !.group_id = k]]

MergeStep ==
    /\ gpc = "merge" /\ mi < Len(groups)
    /\ merged' = MergeOne(merged, groups[mi + 1], settings)
    /\ mi' = mi + 1
    /\ UNCHANGED <<items, settings, gpc, idx, groups, cur_positions, cur_parts,
                   cur_chars, gid, prev_line, not_g>>

\* the renumbering, and group_subtitles returns the merged list
MergeReturn ==
    /\ gpc = "merge" /\ mi = Len(groups)
    /\ groups' = Renumber(merged)
    /\ gpc' = "done"
    /\ UNCHANGED <<items, settings, idx, cur_positions, cur_parts, cur_chars,
                   gid, prev_line, merged, mi, not_g>>

(***************************************************************************)
(* Specification of group_subtitles.                                       *)
(***************************************************************************)

InitGroup ==
    /\ items \in Inputs
    /\ settings \in SettingsSet
    /\ gpc = "scan" /\ idx = 0 /\ groups = <<>>
    /\ cur_positions = <<>> /\ cur_parts = <<>> /\ cur_chars = 0
    /\ gid = 1 /\ prev_line = None
    /\ merged = <<>> /\ mi = 0
    /\ OnlyGroup

NextGroup ==
    \/ ScanMusic
    \/ ScanMultiSpeaker
    \/ ScanAdd
    \/ ScanEnd
    \/ MergeStep
    \/ MergeReturn

SpecGroup == InitGroup /\ [][NextGroup]_vars

(***************************************************************************)
(* Properties of group_subtitles.                                          *)
(***************************************************************************)
RECURSIVE ConcatPositions(_)
ConcatPositions(gs) ==
    IF gs = <<>> THEN <<>> ELSE Head(gs).positions \o ConcatPositions(Tail(gs))

InputPositions == [k \in 1..Len(items) |-> items[k].Position]

IsOrderedPartition(gs) ==
    /\ \A k \in 1..Len(gs) : gs[k].positions # <<>>
    /\ ConcatPositions(gs) = InputPositions

\* C1: the groups are an ordered partition of the input positions, before the
\* merge pass (gpc = "merge": groups is the scan's result) and after it
\* (gpc = "done": groups is the returned list): no group is empty and the
\* groups' positions, concatenated in group order, are the input positions.
C1_Totality == gpc \in {"merge", "done"} => IsOrderedPartition(groups)

\* a run whose merge pass merged a group away and still returned two or more
C1_Witness == gpc = "done" /\ Len(groups) >= 2 /\ Len(groups) < mi

\* C2: after the merge pass the i-th returned group has id i.
C2_DenseIds == gpc = "done" => \A k \in 1..Len(groups) : groups[k].group_id = k

\* a run where merging left a gap in the scan's ids before the renumbering
C2_Witness ==
    /\ gpc = "done" /\ merged # <<>>
    /\ merged[Len(merged)].group_id > Len(merged)

\* C3: every music line of the input is the only position of its group in the
\* returned list, and that group's text is the music marker.
C3_MusicIsolation ==
    gpc = "done" =>
        \A k \in 1..Len(items) :
            _is_music_only(items[k].Line) =>
                \E j \in 1..Len(groups) :
                    /\ groups[j].positions = <<items[k].Position>>
                    /\ groups[j].text = <<Music>>

\* C4: every returned group has at most max_group_lines positions.
C4_LineCap ==
    gpc = "done" =>
        \A j \in 1..Len(groups) : Len(groups[j].positions) <= settings.max_group_lines

FixtureGroups ==
    << [group_id |-> 1, positions |-> <<1>>,
        text |-> <<"H", "e", "l", "l", "o", ".">>],
       [group_id |-> 2, positions |-> <<2>>,
        text |-> <<"-", " ", "Y", "e", "s", ".", " ", "-", " ", "N", "o", ".">>],
       [group_id |-> 3, positions |-> <<3>>, text |-> <<Music>>],
       [group_id |-> 4, positions |-> <<4, 5>>,
        text |-> <<"I", " ", "t", "h", "i", "n", "k", " ",
                   "t", "h", "a", "t", "'", "s", " ", "f", "i", "n", "e", ".">>] >>

\* C5: the five-line fixture under the default thresholds yields exactly the
\* four groups [1] Hello. / [2] - Yes. - No. / [3] music / [4,5] I think that's fine.
C5_Fixture ==
    (gpc = "done" /\ items = FixtureItems /\ settings = DefaultSettings)
        => groups = FixtureGroups

C5_Witness ==
    gpc = "done" /\ items = FixtureItems /\ settings = DefaultSettings /\ Len(groups) = 4

\* the claim's condition for merging group g into the previous merged group
C6_ShouldMerge(prev, g) ==
    /\ Strip(g.text) # <<Music>>
    /\ ~_starts_dash(Strip(g.text))
    /\ ~_contains_multi_speaker(Strip(g.text))
    /\ ~_ends_phrase(prev.text)
    /\ \/ Len(Strip(g.text)) < settings.min_group_text_chars
       \/ Len(Split(Strip(g.text))) < settings.min_group_words

\* C6: a step of the merge pass that finds a previous merged group merges the
\* group into it (positions and text appended, the list no longer) if and only
\* if the five conditions hold, and otherwise appends it unchanged.
C6_MergeRule ==
    [][(gpc = "merge" /\ mi' = mi + 1 /\ merged # <<>>) =>
        LET g == groups[mi + 1]
            prev == merged[Len(merged)]
        IN  IF C6_ShouldMerge(prev, g)
            THEN /\ Len(merged') = Len(merged)
                 /\ SubSeq(merged', 1, Len(merged) - 1) = SubSeq(merged, 1, Len(merged) - 1)
                 /\ merged'[Len(merged)].positions = prev.positions \o g.positions
                 /\ merged'[Len(merged)].text =
                        Strip(RStrip(prev.text) \o <<" ">> \o Strip(g.text))
            ELSE merged' = Append(merged, g)]_vars

\* the merge pass has merged one group into its predecessor and kept another
\* group that had a predecessor
C6_Witness == gpc = "merge" /\ Len(merged) >= 2 /\ Len(merged) < mi

(***************************************************************************)
(* make_windows (windowing.py).  Indices are 0-based as in the source; the *)
(* k-th group of the list is gs[k + 1].                                    *)
(***************************************************************************)
GroupOverhead == 48
MinWindowChars == 200

_group_cost_chars(g) == Len(g.text) + GroupOverhead

RECURSIVE GrowFocus_skip(_, _, _, _, _)
\* mutant of GrowFocus: the group that did not fit is skipped (j one too far)
GrowFocus_skip(gs, j, focus, budget_used, maxc) ==
    IF j < Len(gs)
    THEN LET cost == _group_cost_chars(gs[j + 1]) IN
         IF focus # <<>> /\ (budget_used + cost) > maxc
         THEN [focus |-> focus, j |-> j + 1, budget_used |-> budget_used]
         ELSE GrowFocus_skip(gs, j + 1, Append(focus, gs[j + 1]), budget_used + cost, maxc)
    ELSE [focus |-> focus, j |-> j, budget_used |-> budget_used]

RECURSIVE GrowFocus(_, _, _, _, _)
\* the inner while loop: grow the focus from index j on
GrowFocus(gs, j, focus, budget_used, maxc) ==
    IF j < Len(gs)
    THEN LET cost == _group_cost_chars(gs[j + 1]) IN
         IF focus # <<>> /\ (budget_used + cost) > maxc
         THEN [focus |-> focus, j |-> j, budget_used |-> budget_used]
         ELSE GrowFocus(gs, j + 1, Append(focus, gs[j + 1]), budget_used + cost, maxc)
    ELSE [focus |-> focus, j |-> j, budget_used |-> budget_used]

RECURSIVE GrowFocus_strict(_, _, _, _, _)
GrowFocus_strict(gs, j, focus, budget_used, maxc) ==
    IF j < Len(gs)
    THEN LET cost == _group_cost_chars(gs[j + 1]) IN
         IF (budget_used + cost) > maxc
         THEN [focus |-> focus, j |-> j, budget_used |-> budget_used]
         ELSE GrowFocus_strict(gs, j + 1, Append(focus, gs[j + 1]), budget_used + cost, maxc)
    ELSE [focus |-> focus, j |-> j, budget_used |-> budget_used]

\* mutant of FocusSpan: the budget test does not exempt the first group and no
\* group is forced into an empty focus
FocusSpan_no_force(gs, i, maxc) == GrowFocus_strict(gs, i, <<>>, 0, maxc)

\* step 1 of the loop body: the focus span starting at i, with the forced
\* single group when the loop left the focus empty
FocusSpan(gs, i, maxc) ==
    LET r == GrowFocus(gs, i, <<>>, 0, maxc) IN
    IF r.focus = <<>>
    THEN [focus |-> <<gs[i + 1]>>, j |-> i + 1,
          budget_used |-> _group_cost_chars(gs[i + 1])]
    ELSE r

Max2(a, b) == IF a >= b THEN a ELSE b
Min2(a, b) == IF a <= b THEN a ELSE b

RECURSIVE Reverse(_)
Reverse(s) == IF s = <<>> THEN <<>> ELSE Append(Reverse(Tail(s)), Head(s))

RECURSIVE PreLoop_no_budget(_, _, _, _, _)
\* mutant of PreLoop: context is added without the test against the remaining budget
PreLoop_no_budget(gs, k, stop, remaining, acc) ==
    IF k <= stop \/ k < 0 THEN [ctx |-> acc, remaining |-> remaining]
    ELSE LET cost == _group_cost_chars(gs[k + 1]) IN
         PreLoop_no_budget(gs, k - 1, stop, remaining - cost, Append(acc, gs[k + 1]))

RECURSIVE PreLoop(_, _, _, _, _)
\* for k in range(i - 1, stop, -1): the groups appended, closest first
PreLoop(gs, k, stop, remaining, acc) ==
    IF k <= stop \/ k < 0 THEN [ctx |-> acc, remaining |-> remaining]
    ELSE LET cost == _group_cost_chars(gs[k + 1]) IN
         IF cost > remaining THEN [ctx |-> acc, remaining |-> remaining]
         ELSE PreLoop(gs, k - 1, stop, remaining - cost, Append(acc, gs[k + 1]))

RECURSIVE PostLoop(_, _, _, _, _)
\* for k in range(j, stop)
PostLoop(gs, k, stop, remaining, acc) ==
    IF k >= stop THEN [ctx |-> acc, remaining |-> remaining]
    ELSE LET cost == _group_cost_chars(gs[k + 1]) IN
         IF cost > remaining THEN [ctx |-> acc, remaining |-> remaining]
         ELSE PostLoop(gs, k + 1, stop, remaining - cost, Append(acc, gs[k + 1]))

\* one iteration of the outer loop: the window built at i and the next i
BuildWindow(gs, i, maxc, pre, post) ==
    LET f == FocusSpan(gs, i, maxc)
        remaining == maxc - f.budget_used
        b == PreLoop(gs, i - 1, Max2(-1, i - pre - 1), remaining, <<>>)
        a == PostLoop(gs, f.j, Min2(Len(gs), f.j + post), b.remaining, <<>>)
    IN  [window |-> [context_before |-> Reverse(b.ctx),
                     focus |-> f.focus,
                     context_after |-> a.ctx],
         j |-> f.j]

\* mutant of TooSmall: < instead of <=
TooSmall_strict(maxc) == maxc < MinWindowChars

\* if max_window_chars <= 200: raise ValueError
TooSmall(maxc) == maxc <= MinWindowChars

WinReject ==
    /\ wpc = "start" /\ TooSmall(max_window_chars)
    /\ wpc' = "error"
    /\ UNCHANGED <<wgroups, max_window_chars, pre_groups, post_groups, win_i,
                   windows, not_w>>

WinAccept ==
    /\ wpc = "start" /\ ~TooSmall(max_window_chars)
    /\ wpc' = "loop" /\ win_i' = 0 /\ windows' = <<>>
    /\ UNCHANGED <<wgroups, max_window_chars, pre_groups, post_groups, not_w>>

WinStep ==
    /\ wpc = "loop" /\ win_i < Len(wgroups)
    /\ LET r == BuildWindow(wgroups, win_i, max_window_chars, pre_groups, post_groups)
       IN  /\ windows' = Append(windows, r.window)
           /\ win_i' = r.j
    /\ UNCHANGED <<wgroups, max_window_chars, pre_groups, post_groups, wpc, not_w>>

WinReturn ==
    /\ wpc = "loop" /\ ~(win_i < Len(wgroups))
    /\ wpc' = "done"
    /\ UNCHANGED <<wgroups, max_window_chars, pre_groups, post_groups, win_i,
                   windows, not_w>>

(***************************************************************************)
(* Specification of make_windows.                                          *)
(***************************************************************************)
Rep(n) == [k \in 1..n |-> "x"]

\* text lengths of the groups: costs 48, 153 and 208, so that 48 + 153 meets
\* the budget 201 exactly and 208 alone exceeds it
WinTextLens == {0, 105, 160}

\* budgets: rejected (150, 200) and accepted (201, 300)
WinBudgets == {150, 200, 201, 300}

MkGroups(f) ==
    [k \in 1..Len(f) |-> [group_id |-> k, positions |-> <<k>>, text |-> Rep(f[k])]]

WinInputs ==
    UNION { { MkGroups(f) : f \in [1..n -> WinTextLens] } : n \in 0..MaxGroups }


InitWindow ==
    /\ wgroups \in WinInputs
    /\ max_window_chars \in WinBudgets
    /\ pre_groups \in 0..MaxContext
    /\ post_groups \in 0..MaxContext
    /\ wpc = "start" /\ win_i = 0 /\ windows = <<>>
    /\ OnlyWindow

NextWindow ==
    \/ WinReject
    \/ WinAccept
    \/ WinStep
    \/ WinReturn

SpecWindow == InitWindow /\ [][NextWindow]_vars

(***************************************************************************)
(* Properties of make_windows.                                             *)
(***************************************************************************)
RECURSIVE ConcatFocus(_)
ConcatFocus(ws) == IF ws = <<>> THEN <<>> ELSE Head(ws).focus \o ConcatFocus(Tail(ws))

GroupIds(gs) == {gs[k].group_id : k \in 1..Len(gs)}

RECURSIVE SumCost(_)
SumCost(gs) == IF gs = <<>> THEN 0 ELSE _group_cost_chars(Head(gs)) + SumCost(Tail(gs))

\* C7: the focus lists of the returned windows, concatenated in window order,
\* are the input group list, and no window has a group both in its focus and
\* in one of its context lists.
C7_WindowCoverage ==
    wpc = "done" =>
        /\ ConcatFocus(windows) = wgroups
        /\ \A k \in 1..Len(windows) :
               GroupIds(windows[k].focus)
                   \cap (GroupIds(windows[k].context_before)
                         \cup GroupIds(windows[k].context_after)) = {}

\* several windows were returned and one of them carries context
C7_Witness ==
    /\ wpc = "done" /\ Len(windows) >= 3
    /\ \E k \in 1..Len(windows) : windows[k].context_before # <<>>

\* C8: every window has a focus of at least one group; the groups consumed so
\* far are exactly the focus groups of the windows built so far (so each loop
\* iteration consumed at least one group); there are never more windows than
\* groups; and the loop ends with every group consumed.
C8_FocusNonEmpty ==
    wpc \in {"loop", "done"} =>
        /\ \A k \in 1..Len(windows) : Len(windows[k].focus) >= 1
        /\ Len(ConcatFocus(windows)) = win_i
        /\ Len(windows) <= Len(wgroups)
        /\ (wpc = "done" => win_i = Len(wgroups))

\* a returned window whose single focus group alone costs more than the budget
C8_Witness ==
    /\ wpc = "done"
    /\ \E k \in 1..Len(windows) :
           /\ Len(windows[k].focus) = 1
           /\ Len(windows[k].focus[1].text) + 48 > max_window_chars

WindowCost(w) == SumCost(w.context_before) + SumCost(w.focus) + SumCost(w.context_after)

\* C9: the cost of a window's whole payload is at most max_window_chars, unless
\* its focus is one group that alone costs more, and then it has no context.
C9_Budget ==
    \A k \in 1..Len(windows) :
        \/ WindowCost(windows[k]) <= max_window_chars
        \/ /\ Len(windows[k].focus) = 1
           /\ _group_cost_chars(windows[k].focus[1]) > max_window_chars
           /\ windows[k].context_before = <<>>
           /\ windows[k].context_after = <<>>

\* one returned window is an oversized single group, another has context and
\* spends the budget exactly
C9_Witness ==
    /\ wpc = "done"
    /\ \E k \in 1..Len(windows) : SumCost(windows[k].focus) > max_window_chars
    /\ \E k \in 1..Len(windows) :
           /\ windows[k].context_before # <<>>
           /\ WindowCost(windows[k]) = max_window_chars

\* C10: make_windows raises exactly when max_window_chars <= 200, and then it
\* has produced no window.
C10_Reject ==
    wpc # "start" =>
        /\ (wpc = "error") <=> (max_window_chars <= 200)
        /\ (wpc = "error" => windows = <<>>)

\* the largest rejected budget, with groups to window
C10_Witness == wpc = "error" /\ max_window_chars = 200 /\ wgroups # <<>>

(***************************************************************************)
(* JSON values as Python holds them after json.loads.  A dict is the       *)
(* sequence of its [k, v] pairs in insertion order (keys distinct).        *)
(***************************************************************************)
JStr(x) == [t |-> "str", s |-> x]
JInt(n) == [t |-> "int", n |-> n]
JBool(b) == [t |-> "bool", b |-> b]
JNull == [t |-> "null"]
JList(xs) == [t |-> "list", xs |-> xs]
JDict(pairs) == [t |-> "dict", kv |-> pairs]

IsStr(x) == x.t = "str"
IsList(x) == x.t = "list"
IsDict(x) == x.t = "dict"

\* d.get(key): the value under key, None when the key is absent
DictGet(d, key) ==
    IF \E k \in 1..Len(d.kv) : d.kv[k].k = key
    THEN d.kv[CHOOSE k \in 1..Len(d.kv) : d.kv[k].k = key].v
    ELSE JNull

(***************************************************************************)
(* The Model Gateway (llama_client.py).                                    *)
(***************************************************************************)
Returns(x) == [ok |-> TRUE, value |-> x]
Raises(e) == [ok |-> FALSE, exc |-> e]

extract_llama_content(raw_json) ==
    LET content == DictGet(raw_json, "content")
        choices == DictGet(raw_json, "choices")
        c0 == choices.xs[1]
        msg == DictGet(c0, "message")
        text == DictGet(raw_json, "text")
    IN  IF IsStr(content) THEN Returns(content.s)
        ELSE IF /\ IsList(choices) /\ choices.xs # <<>> /\ IsDict(c0)
                /\ IsStr(DictGet(c0, "text"))
             THEN Returns(DictGet(c0, "text").s)
        ELSE IF /\ IsList(choices) /\ choices.xs # <<>> /\ IsDict(c0)
                /\ IsDict(msg) /\ IsStr(DictGet(msg, "content"))
             THEN Returns(DictGet(msg, "content").s)
        ELSE IF IsStr(text) THEN Returns(text.s)
        ELSE Raises("ValueError")

\* call_llama on a response body: (raw, content), or the ValueError
call_llama(raw) ==
    LET c == extract_llama_content(raw) IN
    IF c.ok THEN Returns(<<raw, c.value>>) ELSE c

Pair(key, val) == [k |-> key, v |-> val]

\* response bodies the completion server may send
RawBodies ==
    { JDict(<<Pair("content", JStr("A"))>>),
      JDict(<<Pair("content", JInt(5)),
              Pair("choices", JList(<<JDict(<<Pair("text", JStr("B"))>>)>>))>>),
      JDict(<<Pair("choices",
                   JList(<<JDict(<<Pair("message",
                                        JDict(<<Pair("content", JStr("C"))>>))>>)>>))>>),
      JDict(<<Pair("choices", JList(<<JDict(<<Pair("text", JNull)>>)>>)),
              Pair("text", JStr("D"))>>),
      JDict(<<Pair("choices", JList(<<>>)), Pair("text", JStr("E"))>>),
      JDict(<<>>),
      JDict(<<Pair("choices", JList(<<JInt(5)>>))>>),
      JDict(<<Pair("content", JNull), Pair("text", JInt(1))>>) }

\* failures of the HTTP exchange itself (post, raise_for_status, r.json)
TransportErrors == {"ConnectError", "HTTPStatusError"}

\* the exception object raised by attempt number a
Exc(type, a) == <<type, a>>
ExcType(e) == e[1]

\* 2 ** n
RECURSIVE Pow2(_)
Pow2(n) == IF n = 0 THEN 1 ELSE 2 * Pow2(n - 1)

\* retries=2 as _translate_focus_window calls the gateway
PipelineRetries == 2

\* base_delay_s = 0.75, in quarter seconds
BaseDelayQuarters == 3

\* an except clause that keeps the first exception it saw
GwExcept_keep_first(e, attempt, retries, last_exc) ==
    LET kept == IF last_exc = None THEN e ELSE last_exc IN
    IF attempt >= retries
    THEN [pc |-> "raised", last_exc |-> kept, raised |-> kept, delay |-> 0]
    ELSE [pc |-> "sleep", last_exc |-> kept, raised |-> None,
          delay |-> BaseDelayQuarters * Pow2(attempt)]

\* the except clause: what the loop does with the exception e of this attempt
GwExcept(e, attempt, retries, last_exc) ==
    IF attempt >= retries
    THEN [pc |-> "raised", last_exc |-> e, raised |-> e, delay |-> 0]
    ELSE [pc |-> "sleep", last_exc |-> e, raised |-> None,
          delay |-> BaseDelayQuarters * Pow2(attempt)]

GwHandle(e, kind) ==
    LET h == GwExcept(e, gw_attempt, gw_retries, gw_last_exc) IN
    /\ gw_pc' = h.pc
    /\ gw_last_exc' = h.last_exc
    /\ gw_raised' = h.raised
    /\ gw_delay' = IF h.pc = "sleep" THEN h.delay ELSE gw_delay
    /\ gw_log' = Append(gw_log, [kind |-> kind, exc |-> e, result |-> None])
    /\ UNCHANGED <<gw_retries, gw_attempt, gw_result, not_gw>>

\* call_llama returns: the loop returns its result
GwCallOk ==
    /\ gw_pc = "call"
    /\ \E raw \in RawBodies :
        /\ call_llama(raw).ok
        /\ gw_result' = call_llama(raw).value
        /\ gw_log' = Append(gw_log, [kind |-> "ok", exc |-> None,
                                     result |-> call_llama(raw).value])
    /\ gw_pc' = "returned"
    /\ UNCHANGED <<gw_retries, gw_attempt, gw_last_exc, gw_delay, gw_raised, not_gw>>

\* the HTTP exchange raises
GwCallTransportError ==
    /\ gw_pc = "call"
    /\ \E type \in TransportErrors : GwHandle(Exc(type, gw_attempt), "transport")

\* the response arrives and extract_llama_content finds none of the shapes
GwCallShapeError ==
    /\ gw_pc = "call"
    /\ \E raw \in RawBodies :
        /\ ~call_llama(raw).ok
        /\ GwHandle(Exc(call_llama(raw).exc, gw_attempt), "shape")

\* asyncio.sleep(delay) is over: the next iteration of the for loop
GwSleepDone ==
    /\ gw_pc = "sleep"
    /\ gw_attempt' = gw_attempt + 1
    /\ gw_pc' = "call"
    /\ UNCHANGED <<gw_retries, gw_last_exc, gw_delay, gw_result, gw_raised,
                   gw_log, not_gw>>

InitGateway ==
    /\ gw_retries \in 0..MaxGwRetries
    /\ gw_pc = "call" /\ gw_attempt = 0 /\ gw_last_exc = None /\ gw_delay = 0
    /\ gw_result = None /\ gw_raised = None /\ gw_log = <<>>
    /\ OnlyGateway

NextGateway ==
    \/ GwCallOk
    \/ GwCallTransportError
    \/ GwCallShapeError
    \/ GwSleepDone

SpecGateway == InitGateway /\ [][NextGateway]_vars

(***************************************************************************)
(* Claims about the gateway.  gw_log holds one entry per call attempt.     *)
(***************************************************************************)
GwFailed(k) == gw_log[k].kind # "ok"

\* C11: call_llama_with_retries makes at most retries+1 call attempts, makes
\* no attempt after a successful one and returns that attempt's result, and
\* raises only after retries+1 failed attempts, the exception being the one
\* of the last attempt.
C11_BoundedRetries ==
    /\ Len(gw_log) <= gw_retries + 1
    /\ \A k \in 1..(Len(gw_log) - 1) : GwFailed(k)
    /\ gw_pc = "returned" =>
        /\ gw_log # <<>>
        /\ gw_log[Len(gw_log)].kind = "ok"
        /\ gw_result = gw_log[Len(gw_log)].result
        /\ gw_raised = None
    /\ gw_pc = "raised" =>
        /\ Len(gw_log) = gw_retries + 1
        /\ \A k \in 1..Len(gw_log) : GwFailed(k)
        /\ gw_raised = gw_log[Len(gw_log)].exc
        /\ gw_result = None
    /\ gw_pc \in {"call", "sleep"} => gw_result = None /\ gw_raised = None

\* all three attempts of the pipeline's retries=2 failed, in different ways
C11_Witness ==
    /\ gw_pc = "raised" /\ gw_retries = PipelineRetries
    /\ ExcType(gw_log[1].exc) # ExcType(gw_log[Len(gw_log)].exc)

\* C12: a response in which extract_llama_content finds none of the shapes
\* is the last call attempt for the prompt and its failure propagates at once.
C12_ShapeNotRetried ==
    \A k \in 1..Len(gw_log) :
        gw_log[k].kind = "shape" => k = Len(gw_log) /\ gw_pc = "raised"

(***************************************************************************)
(* extract_group_translations (json_parse.py).                             *)
(***************************************************************************)
\* an Optional value: Nothing is Python's None, Just(x) is x
Nothing == <<>>
Just(x) == <<x>>

\* isinstance(v, int): true of True and False too, bool being a subclass of int
IsInt(x) == x.t \in {"int", "bool"}

\* the integer a Python int or bool equals and hashes as
IntOf(x) == IF x.t = "bool" THEN (IF x.b THEN 1 ELSE 0) ELSE x.n

\* item.values(), in insertion order
Values(d) == [k \in 1..Len(d.kv) |-> d.kv[k].v]

\* for v in xs: if ...: ... break, hits being the indices that pass the test
FirstAt(xs, hits) ==
    IF hits = {} THEN Nothing
    ELSE Just(xs[CHOOSE k \in hits : \A j \in hits : k <= j])

Range(f) == {f[k] : k \in DOMAIN f}

\* out[key] = val
DictSet(out, key, val) ==
    [k \in DOMAIN out \cup {key} |-> IF k = key THEN val ELSE out[k]]

\* gid: the first int value that is in expected
ItemGid(item, expected) ==
    LET vs == Values(item)
        f == FirstAt(vs, {k \in 1..Len(vs) : IsInt(vs[k]) /\ IntOf(vs[k]) \in expected})
    IN
    IF f = Nothing THEN Nothing ELSE Just(IntOf(f[1]))

\* line: the value under "line" if a str, else the first str value
ItemLine(item) ==
    LET v_line == DictGet(item, "line")
        vs == Values(item)
        f == FirstAt(vs, {k \in 1..Len(vs) : IsStr(vs[k])})
    IN  IF IsStr(v_line) THEN Just(v_line.s)
        ELSE IF f = Nothing THEN Nothing ELSE Just(f[1].s)

\* one iteration of the loop over translations
ExtractItem(out, item, expected) ==
    IF ~IsDict(item) THEN out
    ELSE IF ItemGid(item, expected) # Nothing /\ ItemLine(item) # Nothing
         THEN DictSet(out, ItemGid(item, expected)[1], ItemLine(item)[1])
         ELSE out

RECURSIVE ExtractLoop(_, _, _, _)
ExtractLoop(out, translations, k, expected) ==
    IF k > Len(translations) THEN out
    ELSE ExtractLoop(ExtractItem(out, translations[k], expected),
                     translations, k + 1, expected)

extract_group_translations(obj, expected_focus_ids) ==
    LET translations == DictGet(obj, "translations") IN
    IF ~IsList(translations) THEN EmptyMap
    ELSE ExtractLoop(EmptyMap, translations.xs, 1, Range(expected_focus_ids))

\* (returned_ids as a set, missing_ids, mapping)
get_returned_ids_and_missing(obj, expected_focus_ids) ==
    LET mapping == extract_group_translations(obj, expected_focus_ids) IN
    [returned_ids |-> DOMAIN mapping,
     missing |-> SelectSeq(expected_focus_ids, LAMBDA i : i \notin DOMAIN mapping),
     mapping |-> mapping]

\* elements a model may put in the translations list
ElemPool ==
    { JDict(<<Pair("group_id", JInt(1)), Pair("line", JStr("a"))>>),
      JDict(<<Pair("group_id", JInt(1)), Pair("line", JStr("b"))>>),
      JDict(<<Pair("gid", JInt(2)), Pair("line", JStr("c"))>>),
      JDict(<<Pair("n", JInt(7)), Pair("gid", JInt(2)), Pair("text", JStr("d"))>>),
      JDict(<<Pair("ok", JBool(TRUE)), Pair("gid", JInt(2)), Pair("line", JStr("e"))>>),
      JDict(<<Pair("group_id", JInt(3)), Pair("line", JStr("f"))>>),
      JDict(<<Pair("group_id", JInt(2)), Pair("line", JInt(5)), Pair("txt", JStr("g"))>>),
      JDict(<<Pair("group_id", JInt(1))>>),
      JDict(<<Pair("line", JStr("h")), Pair("group_id", JStr("2"))>>),
      JStr("junk") }

ElemLists == UNION { [1..n -> ElemPool] : n \in 0..MaxElems }

ObjPool ==
    { JDict(<<Pair("translations", JList(xs))>>) : xs \in ElemLists }
    \cup { JDict(<<>>), JDict(<<Pair("translations", JStr("a"))>>) }

ExpectedPool == { <<1>>, <<2>>, <<1, 2>> }

\* translations = obj.get(translations_key); not a list: return out
ExStart ==
    /\ ex_pc = "start"
    /\ ex_pc' = IF IsList(DictGet(ex_obj, "translations")) THEN "loop" ELSE "done"
    /\ UNCHANGED <<ex_obj, ex_expected, ex_i, ex_out, not_ex>>

\* one element of translations
ExItem ==
    /\ ex_pc = "loop"
    /\ ex_i < Len(DictGet(ex_obj, "translations").xs)
    /\ ex_out' = ExtractItem(ex_out, DictGet(ex_obj, "translations").xs[ex_i + 1],
                             Range(ex_expected))
    /\ ex_i' = ex_i + 1
    /\ UNCHANGED <<ex_obj, ex_expected, ex_pc, not_ex>>

\* return out
ExReturn ==
    /\ ex_pc = "loop"
    /\ ex_i = Len(DictGet(ex_obj, "translations").xs)
    /\ ex_pc' = "done"
    /\ UNCHANGED <<ex_obj, ex_expected, ex_i, ex_out, not_ex>>

InitExtract ==
    /\ ex_obj \in ObjPool
    /\ ex_expected \in ExpectedPool
    /\ ex_pc = "start" /\ ex_i = 0 /\ ex_out = EmptyMap
    /\ OnlyExtract

NextExtract ==
    \/ ExStart
    \/ ExItem
    \/ ExReturn

SpecExtract == InitExtract /\ [][NextExtract]_vars

\* the elements of translations, <<>> when it is not a list
ExElems ==
    IF IsList(DictGet(ex_obj, "translations"))
    THEN DictGet(ex_obj, "translations").xs ELSE <<>>

\* element k contributes a line for group g
Contributes(k, g) ==
    /\ IsDict(ExElems[k])
    /\ ItemGid(ExElems[k], Range(ex_expected)) = Just(g)
    /\ ItemLine(ExElems[k]) # Nothing

\* C14: when several elements resolve to the same group id, the returned
\* mapping holds the text of the first of them.
C14_FirstWins ==
    ex_pc = "done" =>
        \A g \in DOMAIN ex_out :
            \E k \in 1..Len(ExElems) :
                /\ Contributes(k, g)
                /\ \A j \in 1..(k - 1) : ~Contributes(j, g)
                /\ ex_out[g] = ItemLine(ExElems[k])[1]

\* the first integer-valued field whose value is a member of expected
IntFieldGid(item, expected) ==
    LET vs == Values(item)
        f == FirstAt(vs, {k \in 1..Len(vs) : vs[k].t = "int" /\ vs[k].n \in expected})
    IN
    IF f = Nothing THEN Nothing ELSE Just(f[1].n)

\* C15: whatever the id field is called, an element is resolved to the first
\* integer-valued field whose value is in expected_ids and to the 'line'
\* field if it is a string, else the first string-valued field: right after
\* the loop has processed such an element, out maps that id to that text.
C15_NameIndependent ==
    (ex_pc = "loop" /\ ex_i >= 1 /\ IsDict(ExElems[ex_i])) =>
        LET item == ExElems[ex_i]
            g == IntFieldGid(item, Range(ex_expected))
        IN  (g # Nothing /\ ItemLine(item) # Nothing) =>
                /\ g[1] \in DOMAIN ex_out
                /\ ex_out[g[1]] = ItemLine(item)[1]

(***************************************************************************)
(* The Splitback Allocator (splitback.py).                                 *)
(***************************************************************************)
\* the least target _targets_from_source_lengths and the duration weights allow
MinTarget == 8

\* durations are held in hundredths of a second: max(0.01, float(d))
MinDuration == 1

\* d.get(key) or "" for a dict of texts
TextAt(d, key) == IF key \in DOMAIN d THEN d[key] ELSE <<>>

RECURSIVE Sum(_)
Sum(xs) == IF xs = <<>> THEN 0 ELSE Head(xs) + Sum(Tail(xs))

\* int(round(num / den)) for num >= 0, den > 0: round half to even
RoundHalfEven(num, den) ==
    LET q == num \div den
        r == num % den
    IN  IF 2 * r < den THEN q
        ELSE IF 2 * r > den THEN q + 1
        ELSE IF q % 2 = 0 THEN q ELSE q + 1

\* a last chunk that takes one word only
LastChunk_one_word(words, wi) == Strip(JoinSpace(SubSeq(words, wi + 1, wi + 1)))

\* " ".join(words[wi:]).strip()
LastChunk(words, wi) == Strip(JoinSpace(SubSeq(words, wi + 1, Len(words))))

RECURSIVE FillChunk_no_min(_, _, _, _, _, _)
\* mutant of FillChunk: the walk stops at the target, whatever the minimum
FillChunk_no_min(words, wi, cur, cur_len, target_len, min_chunk_chars) ==
    IF wi >= Len(words) THEN [cur |-> cur, wi |-> wi]
    ELSE LET w == words[wi + 1]
             add_len == Len(w) + (IF cur # <<>> THEN 1 ELSE 0)
         IN  IF cur # <<>> /\ (cur_len + add_len) > target_len
             THEN [cur |-> cur, wi |-> wi]
             ELSE IF cur_len + add_len >= target_len
                  THEN [cur |-> Append(cur, w), wi |-> wi + 1]
                  ELSE FillChunk_no_min(words, wi + 1, Append(cur, w),
                                        cur_len + add_len, target_len,
                                        min_chunk_chars)

RECURSIVE FillChunk(_, _, _, _, _, _)
\* the inner while loop of split_greedy: the words taken and the new wi
FillChunk(words, wi, cur, cur_len, target_len, min_chunk_chars) ==
    IF wi >= Len(words) THEN [cur |-> cur, wi |-> wi]
    ELSE LET w == words[wi + 1]
             add_len == Len(w) + (IF cur # <<>> THEN 1 ELSE 0)
         IN  IF cur # <<>> /\ (cur_len + add_len) > target_len
                           /\ cur_len >= min_chunk_chars
             THEN [cur |-> cur, wi |-> wi]
             ELSE IF /\ cur_len + add_len >= target_len
                     /\ cur_len + add_len >= min_chunk_chars
                  THEN [cur |-> Append(cur, w), wi |-> wi + 1]
                  ELSE FillChunk(words, wi + 1, Append(cur, w), cur_len + add_len,
                                 target_len, min_chunk_chars)

_targets_from_source_lengths(positions, input_by_pos, st) ==
    [k \in 1..Len(positions) |->
        Min2(st.split_max_line_chars,
             Max2(MinTarget, Len(Strip(TextAt(input_by_pos, positions[k])))))]

\* does index a come before index b in sorted(range(n), key=durs, reverse=desc)
Before(durs, desc, a, b) ==
    \/ (IF desc THEN durs[a] > durs[b] ELSE durs[a] < durs[b])
    \/ durs[a] = durs[b] /\ a < b

RECURSIVE SortedFrom(_, _, _)
SortedFrom(durs, desc, rest) ==
    IF rest = {} THEN <<>>
    ELSE LET a == CHOOSE x \in rest : \A y \in rest \ {x} : Before(durs, desc, x, y)
         IN  <<a>> \o SortedFrom(durs, desc, rest \ {a})

\* sorted(range(len(positions)), key=lambda i: durs[i], reverse=desc), 1-based
SortedOrder(durs, desc) == SortedFrom(durs, desc, 1..Len(durs))

RECURSIVE AdjustPass_keep_budget(_, _, _, _, _)
\* mutant of AdjustPass: a target is moved but the amount left is not reduced
AdjustPass_keep_budget(targets, left, idxs, limit, step) ==
    IF idxs = <<>> \/ left <= 0 THEN [targets |-> targets, left |-> left]
    ELSE LET i == Head(idxs) IN
         IF (IF step = 1 THEN targets[i] < limit ELSE targets[i] > limit)
         THEN AdjustPass_keep_budget([targets EXCEPT ![i] = @ + step], left,
                                     Tail(idxs), limit, step)
         ELSE AdjustPass_keep_budget(targets, left, Tail(idxs), limit, step)

RECURSIVE AdjustPass(_, _, _, _, _)
\* one for loop over the growable (step = 1) or shrinkable (step = -1) indices
AdjustPass(targets, left, idxs, limit, step) ==
    IF idxs = <<>> \/ left <= 0 THEN [targets |-> targets, left |-> left]
    ELSE LET i == Head(idxs) IN
         IF (IF step = 1 THEN targets[i] < limit ELSE targets[i] > limit)
         THEN AdjustPass([targets EXCEPT ![i] = @ + step], left - 1, Tail(idxs),
                         limit, step)
         ELSE AdjustPass(targets, left, Tail(idxs), limit, step)

\* no redistribution at all: the clamped targets are returned as they are
AdjustLoop_none(targets, left, order, limit, step) == targets

RECURSIVE AdjustLoop(_, _, _, _, _)
\* while budget > 0 / while over > 0
AdjustLoop(targets, left, order, limit, step) ==
    IF left <= 0 THEN targets
    ELSE LET able == SelectSeq(order, LAMBDA i :
                         IF step = 1 THEN targets[i] < limit ELSE targets[i] > limit)
         IN  IF able = <<>> THEN targets
             ELSE LET r == AdjustPass(targets, left, able, limit, step) IN
                  AdjustLoop(r.targets, r.left, order, limit, step)

\* durs = [max(0.01, float(duration_by_pos.get(p, 0.0))) for p in positions]
Durs(positions, duration_by_pos) ==
    [k \in 1..Len(positions) |-> Max2(MinDuration, duration_by_pos[positions[k]])]

\* the proportional initial targets with clamps
InitialTargets(total_chars, durs, min_t, max_t) ==
    [k \in 1..Len(durs) |->
        Min2(max_t, Max2(min_t, RoundHalfEven(total_chars * durs[k], Sum(durs))))]

_targets_weighted_by_duration(positions, translated_text, duration_by_pos, st) ==
    LET tr == Strip(translated_text)
        total_chars == Max2(1, Len(tr))
        min_t == Max2(MinTarget, st.min_chunk_chars)
        max_t == st.split_max_line_chars
        durs == Durs(positions, duration_by_pos)
        total_dur == Sum(durs)
        initial == InitialTargets(total_chars, durs, min_t, max_t)
        cap_total == Min2(total_chars, max_t * Len(positions))
        cur_total == Sum(initial)
    IN  IF total_dur <= 0
        THEN _targets_from_source_lengths(positions, EmptyMap, st)
        ELSE IF cur_total < cap_total
             THEN AdjustLoop(initial, cap_total - cur_total,
                             SortedOrder(durs, TRUE), max_t, 1)
        ELSE IF cur_total > cap_total
             THEN AdjustLoop(initial, cur_total - cap_total,
                             SortedOrder(durs, FALSE), min_t, -1)
        ELSE initial

\* a zip that leaves out the positions whose chunk is empty
ZipDict_skip_empty(positions, chunks) ==
    [p \in {positions[k] : k \in {j \in 1..Min2(Len(positions), Len(chunks)) :
                                     Strip(chunks[j]) # <<>>}} |->
        Strip(chunks[CHOOSE k \in 1..Min2(Len(positions), Len(chunks)) :
                        /\ positions[k] = p
                        /\ \A j \in (k + 1)..Min2(Len(positions), Len(chunks)) :
                               positions[j] # p])]

\* {p: (c or "").strip() for p, c in zip(positions, chunks)}
ZipDict(positions, chunks) ==
    [p \in {positions[k] : k \in 1..Min2(Len(positions), Len(chunks))} |->
        Strip(chunks[CHOOSE k \in 1..Min2(Len(positions), Len(chunks)) :
                        /\ positions[k] = p
                        /\ \A j \in (k + 1)..Min2(Len(positions), Len(chunks)) :
                               positions[j] # p])]

\* one iteration of the for loop of split_greedy: the chunk appended, the new wi
GreedyStep(words, targets, min_chunk_chars, wi, chunks) ==
    IF wi >= Len(words)
    THEN [wi |-> wi, chunks |-> Append(chunks, <<>>)]
    ELSE IF Len(chunks) + 1 = Len(targets)
         THEN [wi |-> Len(words), chunks |-> Append(chunks, LastChunk(words, wi))]
    ELSE LET f == FillChunk(words, wi, <<>>, 0, targets[Len(chunks) + 1],
                            min_chunk_chars)
         IN  [wi |-> f.wi, chunks |-> Append(chunks, Strip(JoinSpace(f.cur)))]

RECURSIVE GreedyLoop(_, _, _, _, _)
\* the for loop of split_greedy from target number Len(chunks) + 1 on
GreedyLoop(words, targets, min_chunk_chars, wi, chunks) ==
    IF Len(chunks) = Len(targets) THEN chunks
    ELSE LET r == GreedyStep(words, targets, min_chunk_chars, wi, chunks) IN
         GreedyLoop(words, targets, min_chunk_chars, r.wi, r.chunks)

split_greedy(text, targets, min_chunk_chars) ==
    LET s == Strip(text) IN
    IF targets = <<>> THEN <<s>>
    ELSE IF Split(s) = <<>> THEN [k \in 1..Len(targets) |-> <<>>]
    ELSE GreedyLoop(Split(s), targets, min_chunk_chars, 0, <<>>)

\* a music marker handed to every position
MusicResult_all(positions) == [p \in Range(positions) |-> <<Music>>]

\* return {positions[0]: music marker} if positions else {}
MusicResult(positions) ==
    IF positions # <<>> THEN [p \in {positions[1]} |-> <<Music>>] ELSE EmptyMap

\* the targets split_group_translation_to_positions chooses
SplitTargets(positions, tr, input_by_pos, st, duration_by_pos) ==
    IF /\ duration_by_pos # EmptyMap
       /\ \A k \in 1..Len(positions) : positions[k] \in DOMAIN duration_by_pos
    THEN _targets_weighted_by_duration(positions, tr, duration_by_pos, st)
    ELSE _targets_from_source_lengths(positions, input_by_pos, st)

split_group_translation_to_positions(positions, text, input_by_pos, st, duration_by_pos) ==
    LET tr == Strip(text) IN
    IF tr = <<Music>>
    THEN MusicResult(positions)
    ELSE ZipDict(positions,
                 split_greedy(tr, SplitTargets(positions, tr, input_by_pos, st,
                                               duration_by_pos),
                              st.min_chunk_chars))

(***************************************************************************)
(* Inputs of split_group_translation_to_positions.                         *)
(***************************************************************************)
WordPool == { <<"a", "b">>, <<"c", "d", "e", "f", "g">>,
              <<"h", "i", "j", "k", "l", "m", "n", "o", "p">> }

\* texts of up to MaxWords words, and texts with the music marker or with
\* whitespace around and between the words
SplitTexts ==
    { JoinSpace(ws) : ws \in UNION { [1..n -> WordPool] : n \in 0..MaxWords } }
    \cup { <<Music>>, <<" ", Music, " ">>, <<Music, " ", "a", "b">>,
           <<" ", "a", "b", " ", " ", "c", "d", "e", "f", "g", " ">> }

PositionLists == { [k \in 1..n |-> k + 4] : n \in 0..MaxPositions }

\* the source lines: short ones, long ones, or none known
SourcePool(positions) ==
    { [p \in Range(positions) |-> <<"H", "i", ".">>],
      [p \in Range(positions) |-> Rep(14)],
      EmptyMap }

\* durations in hundredths of a second: none, equal, growing, zero and long,
\* or known for the first position only
DurationPool(positions) ==
    { EmptyMap,
      [p \in Range(positions) |-> 100],
      [p \in Range(positions) |-> 100 * (p - 4)],
      [p \in Range(positions) |-> IF p = 5 THEN 0 ELSE 250] }
    \cup (IF positions = <<>> THEN {[p \in {1} |-> 100]}
          ELSE {[p \in {positions[1]} |-> 100]})

SplitSettingsPool ==
    { DefaultSplitSettings,
      [split_max_line_chars |-> 12, min_chunk_chars |-> 4],
      [split_max_line_chars |-> 6, min_chunk_chars |-> 3] }

UseDurations ==
    /\ sp_durations # EmptyMap
    /\ \A k \in 1..Len(sp_positions) : sp_positions[k] \in DOMAIN sp_durations

\* tr == the music marker: only the first position gets it
SpMusic ==
    /\ sp_pc = "start"
    /\ Strip(sp_text) = <<Music>>
    /\ sp_result' = MusicResult(sp_positions)
    /\ sp_pc' = "done"
    /\ UNCHANGED <<sp_positions, sp_text, sp_input_by_pos, sp_settings, sp_durations,
                   sp_targets, sp_words, sp_wi, sp_chunks, sp_left,
                   sp_dir, not_sp>>

\* targets weighted by duration; split_greedy starts
SpTargetsDuration ==
    /\ sp_pc = "start"
    /\ Strip(sp_text) # <<Music>>
    /\ UseDurations
    /\ sp_targets' = _targets_weighted_by_duration(sp_positions, Strip(sp_text),
                                                   sp_durations, sp_settings)
    /\ sp_words' = Split(Strip(sp_text))
    /\ sp_pc' = "greedy"
    /\ UNCHANGED <<sp_positions, sp_text, sp_input_by_pos, sp_settings, sp_durations,
                   sp_wi, sp_chunks, sp_result, sp_left,
                   sp_dir, not_sp>>

\* targets from the source lengths; split_greedy starts
SpTargetsSource ==
    /\ sp_pc = "start"
    /\ Strip(sp_text) # <<Music>>
    /\ ~UseDurations
    /\ sp_targets' = _targets_from_source_lengths(sp_positions, sp_input_by_pos,
                                                  sp_settings)
    /\ sp_words' = Split(Strip(sp_text))
    /\ sp_pc' = "greedy"
    /\ UNCHANGED <<sp_positions, sp_text, sp_input_by_pos, sp_settings, sp_durations,
                   sp_wi, sp_chunks, sp_result, sp_left,
                   sp_dir, not_sp>>

\* if not targets: return [s]
SgNoTargets ==
    /\ sp_pc = "greedy"
    /\ sp_targets = <<>>
    /\ sp_chunks' = <<Strip(sp_text)>>
    /\ sp_pc' = "zip"
    /\ UNCHANGED <<sp_positions, sp_text, sp_input_by_pos, sp_settings, sp_durations,
                   sp_targets, sp_words, sp_wi, sp_result, sp_left,
                   sp_dir, not_sp>>

\* if not words: return [""] * len(targets)
SgNoWords ==
    /\ sp_pc = "greedy"
    /\ sp_targets # <<>> /\ sp_words = <<>>
    /\ sp_chunks' = [k \in 1..Len(sp_targets) |-> <<>>]
    /\ sp_pc' = "zip"
    /\ UNCHANGED <<sp_positions, sp_text, sp_input_by_pos, sp_settings, sp_durations,
                   sp_targets, sp_words, sp_wi, sp_result, sp_left,
                   sp_dir, not_sp>>

\* one iteration of the for loop
SgIterate ==
    LET r == GreedyStep(sp_words, sp_targets, sp_settings.min_chunk_chars, sp_wi,
                        sp_chunks)
    IN  /\ sp_wi' = r.wi
        /\ sp_chunks' = r.chunks
        /\ sp_pc' = IF Len(r.chunks) = Len(sp_targets) THEN "zip" ELSE "greedy"
        /\ UNCHANGED <<sp_positions, sp_text, sp_input_by_pos, sp_settings,
                       sp_durations, sp_targets, sp_words, sp_result, sp_left,
                   sp_dir, not_sp>>

SgLoopGuard ==
    /\ sp_pc = "greedy"
    /\ sp_targets # <<>> /\ sp_words # <<>>
    /\ Len(sp_chunks) < Len(sp_targets)

\* no word is left: the position gets ""
SgExhausted ==
    /\ SgLoopGuard
    /\ sp_wi >= Len(sp_words)
    /\ SgIterate

\* the last target takes every word that is left
SgLast ==
    /\ SgLoopGuard
    /\ sp_wi < Len(sp_words)
    /\ Len(sp_chunks) + 1 = Len(sp_targets)
    /\ SgIterate

\* an earlier target takes words up to its length
SgFill ==
    /\ SgLoopGuard
    /\ sp_wi < Len(sp_words)
    /\ Len(sp_chunks) + 1 < Len(sp_targets)
    /\ SgIterate

\* the dict of positions and stripped chunks
SpReturn ==
    /\ sp_pc = "zip"
    /\ sp_result' = ZipDict(sp_positions, sp_chunks)
    /\ sp_pc' = "done"
    /\ UNCHANGED <<sp_positions, sp_text, sp_input_by_pos, sp_settings, sp_durations,
                   sp_targets, sp_words, sp_wi, sp_chunks, sp_left,
                   sp_dir, not_sp>>

InitSplit ==
    /\ sp_positions \in PositionLists
    /\ sp_text \in SplitTexts
    /\ sp_input_by_pos \in SourcePool(sp_positions)
    /\ sp_settings \in SplitSettingsPool
    /\ sp_durations \in DurationPool(sp_positions)
    /\ sp_pc = "start" /\ sp_targets = <<>> /\ sp_words = <<>> /\ sp_wi = 0
    /\ sp_chunks = <<>> /\ sp_result = EmptyMap
    /\ sp_left = 0 /\ sp_dir = 0
    /\ OnlySplit

NextSplit ==
    \/ SpMusic
    \/ SpTargetsDuration
    \/ SpTargetsSource
    \/ SgNoTargets
    \/ SgNoWords
    \/ SgExhausted
    \/ SgLast
    \/ SgFill
    \/ SpReturn

SpecSplit == InitSplit /\ [][NextSplit]_vars

(***************************************************************************)
(* _targets_weighted_by_duration, one pass of its redistribution loops per *)
(* step.                                                                   *)
(***************************************************************************)
TotalChars == Max2(1, Len(Strip(sp_text)))
MinT == Max2(MinTarget, sp_settings.min_chunk_chars)
MaxT == sp_settings.split_max_line_chars

\* order of the loop in hand: longest first to grow, shortest first to shrink
Order == SortedOrder(Durs(sp_positions, sp_durations), sp_dir = 1)

\* max_t in the grow loop, min_t in the shrink loop
Limit == IF sp_dir = 1 THEN MaxT ELSE MinT

\* growable / shrinkable
Able ==
    SelectSeq(Order, LAMBDA i :
        IF sp_dir = 1 THEN sp_targets[i] < Limit ELSE sp_targets[i] > Limit)

\* if total_dur <= 0: the targets of the source lengths of no source
AdNoDuration ==
    /\ sp_pc = "weigh"
    /\ Sum(Durs(sp_positions, sp_durations)) <= 0
    /\ sp_targets' = _targets_from_source_lengths(sp_positions, EmptyMap, sp_settings)
    /\ sp_pc' = "returned"
    /\ UNCHANGED <<sp_positions, sp_text, sp_input_by_pos, sp_settings, sp_durations,
                   sp_words, sp_wi, sp_chunks, sp_result, sp_left, sp_dir, not_sp>>

\* the clamped proportional targets, and the choice of the loop
AdStart ==
    /\ sp_pc = "weigh"
    /\ Sum(Durs(sp_positions, sp_durations)) > 0
    /\ LET initial == InitialTargets(TotalChars, Durs(sp_positions, sp_durations),
                                     MinT, MaxT)
           cap_total == Min2(TotalChars, MaxT * Len(sp_positions))
           cur_total == Sum(initial)
       IN  /\ sp_targets' = initial
           /\ sp_dir' = IF cur_total < cap_total THEN 1
                        ELSE IF cur_total > cap_total THEN -1 ELSE 0
           /\ sp_left' = IF cur_total < cap_total THEN cap_total - cur_total
                         ELSE IF cur_total > cap_total THEN cur_total - cap_total
                         ELSE 0
           /\ sp_pc' = IF cur_total = cap_total THEN "returned" ELSE "adjust"
    /\ UNCHANGED <<sp_positions, sp_text, sp_input_by_pos, sp_settings, sp_durations,
                   sp_words, sp_wi, sp_chunks, sp_result, not_sp>>

\* one iteration of while budget > 0 / while over > 0 that finds a candidate
AdPass ==
    /\ sp_pc = "adjust"
    /\ sp_left > 0 /\ Able # <<>>
    /\ LET r == AdjustPass(sp_targets, sp_left, Able, Limit, sp_dir)
       IN  sp_targets' = r.targets /\ sp_left' = r.left
    /\ UNCHANGED <<sp_positions, sp_text, sp_input_by_pos, sp_settings, sp_durations,
                   sp_pc, sp_words, sp_wi, sp_chunks, sp_result, sp_dir, not_sp>>

\* the loop condition fails: nothing is left to hand out or to take back
AdDone ==
    /\ sp_pc = "adjust"
    /\ sp_left <= 0
    /\ sp_pc' = "returned"
    /\ UNCHANGED <<sp_positions, sp_text, sp_input_by_pos, sp_settings, sp_durations,
                   sp_targets, sp_words, sp_wi, sp_chunks, sp_result, sp_left,
                   sp_dir, not_sp>>

\* if not growable / if not shrinkable: break
AdStuck ==
    /\ sp_pc = "adjust"
    /\ sp_left > 0 /\ Able = <<>>
    /\ sp_pc' = "returned"
    /\ UNCHANGED <<sp_positions, sp_text, sp_input_by_pos, sp_settings, sp_durations,
                   sp_targets, sp_words, sp_wi, sp_chunks, sp_result, sp_left,
                   sp_dir, not_sp>>

\* the calls split_group_translation_to_positions makes: the text is not the
\* music marker and every position has a duration
InitAdjust ==
    /\ sp_positions \in PositionLists
    /\ sp_text \in SplitTexts
    /\ Strip(sp_text) # <<Music>>
    /\ sp_input_by_pos = EmptyMap
    /\ sp_settings \in SplitSettingsPool
    /\ sp_durations \in DurationPool(sp_positions)
    /\ UseDurations
    /\ sp_pc = "weigh" /\ sp_targets = <<>> /\ sp_words = <<>> /\ sp_wi = 0
    /\ sp_chunks = <<>> /\ sp_result = EmptyMap
    /\ sp_left = 0 /\ sp_dir = 0
    /\ OnlySplit

NextAdjust ==
    \/ AdNoDuration
    \/ AdStart
    \/ AdPass
    \/ AdDone
    \/ AdStuck

\* the function is synchronous code: it runs on while a step is possible
SpecAdjust == InitAdjust /\ [][NextAdjust]_vars /\ WF_vars(NextAdjust)

(***************************************************************************)
(* Claims about the Splitback Allocator.                                   *)
(***************************************************************************)
IsMusicText(text) == Strip(text) = <<Music>>

\* C19 as stated: for any positions and any translated text the returned map
\* has exactly one entry per position.
C19_OneEntryPerPosition ==
    sp_pc = "done" => DOMAIN sp_result = Range(sp_positions)

\* C19, amended: for any positions and any translated text that is not the
\* music marker after trimming, the returned map has exactly one entry per
\* position; for the music marker it has an entry for the first position only.
C19_Coverage ==
    sp_pc = "done" =>
        IF IsMusicText(sp_text)
        THEN DOMAIN sp_result =
                 (IF sp_positions = <<>> THEN {} ELSE {sp_positions[1]})
        ELSE /\ DOMAIN sp_result = Range(sp_positions)
             /\ Len(sp_chunks) = Len(sp_targets) \/ sp_positions = <<>>

\* more positions than words: the positions after the words get ""
C19_Witness ==
    /\ sp_pc = "done" /\ ~IsMusicText(sp_text)
    /\ Len(sp_positions) = MaxPositions /\ Len(sp_words) = 1
    /\ sp_result[sp_positions[2]] = <<>>

NonEmpty(chunks) == SelectSeq(chunks, LAMBDA c : c # <<>>)

\* the chunks handed to the positions, in position order
ResultChunks == [k \in 1..Len(sp_positions) |-> sp_result[sp_positions[k]]]

\* C20: for a non-empty position list, the chunks of split_greedy joined by
\* single spaces, empty chunks skipped, are the words of the translated text
\* joined by single spaces; every word has been consumed once the last
\* position has had its turn; the returned map holds these chunks.
C20_PreservesText ==
    (sp_pc \in {"zip", "done"} /\ sp_positions # <<>> /\ ~IsMusicText(sp_text)) =>
        /\ JoinSpace(NonEmpty(sp_chunks)) = JoinSpace(Split(sp_text))
        /\ sp_words # <<>> => sp_wi = Len(sp_words)
        /\ sp_pc = "done" =>
               JoinSpace(NonEmpty(ResultChunks)) = JoinSpace(Split(sp_text))

\* the last position took more than one word after an earlier one took some
C20_Witness ==
    /\ sp_pc = "done" /\ Len(sp_positions) >= 2 /\ ~IsMusicText(sp_text)
    /\ sp_chunks[1] # <<>>
    /\ Len(Split(sp_chunks[Len(sp_chunks)])) >= 2

(***************************************************************************)
(* The Window Translator (pipeline.py): _translate_entire_window, one      *)
(* request of _translate_focus_window per step.                            *)
(***************************************************************************)
\* a shrink that keeps the larger half
_shrink_list_ceil(xs) ==
    IF Len(xs) <= 1 THEN xs ELSE SubSeq(xs, 1, Len(xs) - (Len(xs) \div 2))

\* a shrink that keeps the right part
_shrink_list_tail(xs) ==
    IF Len(xs) <= 1 THEN xs
    ELSE SubSeq(xs, Len(xs) - Max2(1, Len(xs) \div 2) + 1, Len(xs))

\* _shrink_list(xs, 0.5)
_shrink_list(xs) ==
    IF Len(xs) <= 1 THEN xs ELSE SubSeq(xs, 1, Max2(1, Len(xs) \div 2))

\* an update that forgets what a held
DictUpdate_replace(a, b) == b

\* a.update(b)
DictUpdate(a, b) ==
    [k \in DOMAIN a \cup DOMAIN b |-> IF k \in DOMAIN b THEN b[k] ELSE a[k]]

\* [int(g["group_id"]) for g in gs]
GroupIdsOf(gs) == [k \in 1..Len(gs) |-> gs[k].group_id]

\* _input_by_pos(items): the source line of every position
TrInputByPos == [p \in 1..(2 * MaxFocus + 3) |-> <<"H", "i", ".">>]

RECURSIVE SplitAll(_, _, _, _)
\* the loop over focus_lines_by_gid: the groups of the chunk are split back
\* into their positions (the positions of different groups are disjoint, so
\* the order of the updates does not show in the result)
SplitAll(focus, k, mapping, out) ==
    IF k > Len(focus) THEN out
    ELSE LET g == focus[k] IN
         SplitAll(focus, k + 1, mapping,
                  IF g.group_id \in DOMAIN mapping
                  THEN DictUpdate(out,
                           split_group_translation_to_positions(
                               g.positions, mapping[g.group_id], TrInputByPos,
                               DefaultSplitSettings, EmptyMap))
                  ELSE out)

\* a request that merges whatever ids came back, missing ones or not
_translate_focus_window_partial(focus, resp) ==
    IF resp.kind = "gateway" THEN Raises("gateway")
    ELSE IF resp.kind = "parse" THEN Raises("parse")
    ELSE Returns(SplitAll(focus, 1,
                     get_returned_ids_and_missing(resp.obj, GroupIdsOf(focus)).mapping,
                     EmptyMap))

\* _translate_focus_window on the outcome resp of the model call: the gateway
\* raised, parse_model_json raised, or an object was recovered
_translate_focus_window(focus, resp) ==
    IF resp.kind = "gateway" THEN Raises("gateway")
    ELSE IF resp.kind = "parse" THEN Raises("parse")
    ELSE LET r == get_returned_ids_and_missing(resp.obj, GroupIdsOf(focus)) IN
         IF r.missing # <<>> THEN Raises("ValueError")
         ELSE Returns(SplitAll(focus, 1, r.mapping, EmptyMap))

\* an advance by one group whatever the size of the chunk
Advance_one(focus_remaining, cur_focus) ==
    SubSeq(focus_remaining, 2, Len(focus_remaining))

\* focus_remaining[len(cur_focus):]
Advance(focus_remaining, cur_focus) ==
    SubSeq(focus_remaining, Len(cur_focus) + 1, Len(focus_remaining))

\* an except clause that gives up as soon as the budget is exceeded
OnChunkFailure_no_force(cur_focus, attempt, max_retries, shrink) ==
    IF attempt + 1 > max_retries
    THEN [pc |-> "failed", cur_focus |-> cur_focus, attempt |-> attempt + 1]
    ELSE [pc |-> "request",
          cur_focus |-> IF shrink /\ Len(cur_focus) > 1
                        THEN _shrink_list(cur_focus) ELSE cur_focus,
          attempt |-> attempt + 1]

\* an except clause that starts over instead of raising
OnChunkFailure_never_fail(cur_focus, attempt, max_retries, shrink) ==
    IF attempt + 1 > max_retries
    THEN [pc |-> "request", cur_focus |-> SubSeq(cur_focus, 1, 1), attempt |-> 0]
    ELSE [pc |-> "request",
          cur_focus |-> IF shrink /\ Len(cur_focus) > 1
                        THEN _shrink_list(cur_focus) ELSE cur_focus,
          attempt |-> attempt + 1]

\* an except clause that allows one failure more
OnChunkFailure_one_more(cur_focus, attempt, max_retries, shrink) ==
    IF attempt > max_retries
    THEN IF Len(cur_focus) > 1
         THEN [pc |-> "request", cur_focus |-> SubSeq(cur_focus, 1, 1), attempt |-> 0]
         ELSE [pc |-> "failed", cur_focus |-> cur_focus, attempt |-> attempt + 1]
    ELSE [pc |-> "request",
          cur_focus |-> IF shrink /\ Len(cur_focus) > 1
                        THEN _shrink_list(cur_focus) ELSE cur_focus,
          attempt |-> attempt + 1]

\* the except clause of the inner loop
OnChunkFailure(cur_focus, attempt, max_retries, shrink) ==
    IF attempt + 1 > max_retries
    THEN IF Len(cur_focus) > 1
         THEN [pc |-> "request", cur_focus |-> SubSeq(cur_focus, 1, 1), attempt |-> 0]
         ELSE [pc |-> "failed", cur_focus |-> cur_focus, attempt |-> attempt + 1]
    ELSE [pc |-> "request",
          cur_focus |-> IF shrink /\ Len(cur_focus) > 1
                        THEN _shrink_list(cur_focus) ELSE cur_focus,
          attempt |-> attempt + 1]

(***************************************************************************)
(* Inputs: the focus of a window and what the model may answer.            *)
(***************************************************************************)
Letters == <<"a", "b", "c", "d", "e", "f", "g", "h">>
Word(g) == [k \in 1..4 |-> Letters[g]]

\* a translation of group g, three words
TrText(g) == JoinSpace(<<Word(g), Word(g), Word(g)>>)

\* focus groups 2, 3, ...: odd ones hold one position, even ones two
MkFocus(n) ==
    [k \in 1..n |-> [group_id |-> k + 1,
                     positions |-> IF k % 2 = 1 THEN <<2 * k>>
                                   ELSE <<2 * k, 2 * k + 1>>]]

\* a window without context, and one with group 1 before the focus and the
\* group after the focus behind it
ContextPool(focus) ==
    { NoContext,
      [before |-> <<[group_id |-> 1, positions |-> <<1>>]>>,
       after |-> <<[group_id |-> Len(focus) + 2,
                    positions |-> <<2 * Len(focus) + 2>>]>>] }

Elem(g, text) == JDict(<<Pair("group_id", JInt(g)), Pair("line", JStr(text))>>)

Answer(elems) == [kind |-> "object", obj |-> JDict(<<Pair("translations", JList(elems))>>)]

\* one element per expected id
FullElems(ids) == [k \in 1..Len(ids) |-> Elem(ids[k], TrText(ids[k]))]

\* the group after the chunk (context, or outside the window), and group 1
ExtraElems(ids) ==
    <<Elem(ids[Len(ids)] + 1, TrText(1)), Elem(1, TrText(1))>>

\* answers that resolve every expected id
GoodAnswers(ids) ==
    { Answer(FullElems(ids)),
      Answer(FullElems(ids) \o ExtraElems(ids)),
      Answer(ExtraElems(ids) \o
             [k \in 1..Len(ids) |->
                 Elem(ids[k], IF k = Len(ids) THEN <<Music>> ELSE TrText(ids[k]))]) }

\* outcomes that make the request fail
BadAnswers(ids) ==
    { [kind |-> "gateway"],
      [kind |-> "parse"],
      Answer(SubSeq(FullElems(ids), 1, Len(ids) - 1)),
      Answer(ExtraElems(ids) \o SubSeq(FullElems(ids), 2, Len(ids))),
      [kind |-> "object", obj |-> JDict(<<>>)] }

\* add_groups(gs, role): the payload entries of the groups gs
add_groups(gs, role) ==
    [k \in 1..Len(gs) |-> [group_id |-> gs[k].group_id, role |-> role]]

\* a payload that puts the chunk after all the context
Payload_focus_last(ctx_before, focus, ctx_after) ==
    add_groups(ctx_before, "context") \o add_groups(ctx_after, "context")
    \o add_groups(focus, "translate")

\* the payload _translate_focus_window builds (the texts of the groups are
\* not part of the model's groups)
Payload(ctx_before, focus, ctx_after) ==
    add_groups(ctx_before, "context") \o add_groups(focus, "translate")
    \o add_groups(ctx_after, "context")

\* remainder_after + ctx_after_base
CtxAfter(focus_remaining, cur_focus, ctx_after_base) ==
    Advance(focus_remaining, cur_focus) \o ctx_after_base

Request(resp, ok) ==
    [expected |-> GroupIdsOf(tr_cur_focus),
     context_after |-> GroupIdsOf(Advance(tr_focus_remaining, tr_cur_focus)),
     resp |-> resp, ok |-> ok,
     payload |-> Payload(tr_ctx.before, tr_cur_focus,
                         CtxAfter(tr_focus_remaining, tr_cur_focus, tr_ctx.after))]

\* while focus_remaining: a new chunk, the whole remainder
TrNextChunk ==
    /\ tr_pc = "outer"
    /\ tr_focus_remaining # <<>>
    /\ tr_cur_focus' = tr_focus_remaining
    /\ tr_attempt' = 0
    /\ tr_pc' = "request"
    /\ UNCHANGED <<tr_focus, tr_max_retries, tr_shrink, tr_focus_remaining,
                   tr_out_by_pos, tr_translated, tr_covered, tr_last, tr_ctx,
                   tr_fails, not_tr>>

\* the outer loop ends: return
TrReturn ==
    /\ tr_pc = "outer"
    /\ tr_focus_remaining = <<>>
    /\ tr_pc' = "done"
    /\ UNCHANGED <<tr_focus, tr_max_retries, tr_shrink, tr_focus_remaining,
                   tr_cur_focus, tr_attempt, tr_out_by_pos, tr_translated,
                   tr_covered, tr_last, tr_ctx, tr_fails, not_tr>>

Answers(ids) == GoodAnswers(ids) \cup BadAnswers(ids)

\* the request returns: merge, advance past the chunk
TrChunkOk ==
    /\ tr_pc = "request"
    /\ \E resp \in Answers(GroupIdsOf(tr_cur_focus)) :
        LET res == _translate_focus_window(tr_cur_focus, resp) IN
        /\ res.ok
        /\ tr_out_by_pos' = DictUpdate(tr_out_by_pos, res.value)
        /\ tr_last' = Request(resp, TRUE)
    /\ tr_focus_remaining' = Advance(tr_focus_remaining, tr_cur_focus)
    /\ tr_translated' = tr_translated + Len(tr_cur_focus)
    /\ tr_covered' = [g \in DOMAIN tr_covered |->
                        IF g \in Range(GroupIdsOf(tr_cur_focus))
                        THEN tr_covered[g] + 1 ELSE tr_covered[g]]
    /\ tr_pc' = "outer"
    /\ tr_fails' = IF tr_fails.counted
                   THEN [tr_fails EXCEPT !.run = 0, !.succeeded = @ + 1]
                   ELSE tr_fails
    /\ UNCHANGED <<tr_focus, tr_max_retries, tr_shrink, tr_cur_focus, tr_attempt,
                   tr_ctx, not_tr>>

\* the request raises: the except clause decides
TrChunkRaises ==
    /\ tr_pc = "request"
    /\ \E resp \in Answers(GroupIdsOf(tr_cur_focus)) :
        /\ ~_translate_focus_window(tr_cur_focus, resp).ok
        /\ tr_last' = Request(resp, FALSE)
    /\ LET h == OnChunkFailure(tr_cur_focus, tr_attempt, tr_max_retries, tr_shrink) IN
        /\ tr_pc' = h.pc
        /\ tr_cur_focus' = h.cur_focus
        /\ tr_attempt' = h.attempt
    /\ tr_fails' = IF tr_fails.counted
                   THEN [tr_fails EXCEPT !.run = @ + 1, !.failed = @ + 1]
                   ELSE tr_fails
    /\ UNCHANGED <<tr_focus, tr_max_retries, tr_shrink, tr_focus_remaining,
                   tr_out_by_pos, tr_translated, tr_covered, tr_ctx, not_tr>>

Handled == OnChunkFailure(tr_cur_focus, tr_attempt, tr_max_retries, tr_shrink)

\* a failure within the budget: retry, with a halved chunk if so configured
TrChunkRetry ==
    /\ tr_pc = "request"
    /\ Handled.pc = "request" /\ Handled.attempt > 0
    /\ TrChunkRaises

\* the budget is exceeded: the chunk is cut to its first group
TrChunkForceShrink ==
    /\ tr_pc = "request"
    /\ Handled.pc = "request" /\ Handled.attempt = 0
    /\ TrChunkRaises

\* the budget is exceeded by a single group: the exception propagates
TrChunkFailed ==
    /\ tr_pc = "request"
    /\ Handled.pc = "failed"
    /\ TrChunkRaises

InitWindowRun(fails) ==
    /\ tr_focus \in { MkFocus(n) : n \in 1..MaxFocus }
    /\ tr_max_retries \in 0..MaxRetriesPerWindow
    /\ tr_shrink \in BOOLEAN
    /\ tr_pc = "outer"
    /\ tr_focus_remaining = tr_focus
    /\ tr_cur_focus = <<>> /\ tr_attempt = 0
    /\ tr_out_by_pos = EmptyMap /\ tr_translated = 0
    /\ tr_covered = [g \in Range(GroupIdsOf(tr_focus)) |-> 0]
    /\ tr_last = NoRequest
    /\ tr_ctx \in ContextPool(tr_focus)
    /\ tr_fails = fails
    /\ OnlyTranslate

InitTranslate == InitWindowRun(NoFails)

NextTranslate ==
    \/ TrNextChunk
    \/ TrReturn
    \/ TrChunkOk
    \/ TrChunkRetry
    \/ TrChunkForceShrink
    \/ TrChunkFailed

SpecTranslate == InitTranslate /\ [][NextTranslate]_vars

\* a window whose every request fails
NextAlwaysFail ==
    \/ TrNextChunk
    \/ TrChunkRetry
    \/ TrChunkForceShrink
    \/ TrChunkFailed

SpecAlwaysFail ==
    InitTranslate /\ [][NextAlwaysFail]_vars /\ WF_vars(NextAlwaysFail)

\* the window with its requests counted
InitRetry == InitWindowRun([NoFails EXCEPT !.counted = TRUE])

SpecRetry == InitRetry /\ [][NextTranslate]_vars

(***************************************************************************)
(* Claims about the Window Translator.                                     *)
(***************************************************************************)
\* the ids the recovered object of request req resolves
Resolved(req) ==
    IF req.resp.kind = "object"
    THEN DOMAIN extract_group_translations(req.resp.obj, req.expected)
    ELSE {}

AllResolved(req) ==
    /\ req.resp.kind = "object"
    /\ \A k \in 1..Len(req.expected) : req.expected[k] \in Resolved(req)

\* the positions of the groups gs
PositionsOf(gs) == UNION { Range(gs[k].positions) : k \in 1..Len(gs) }

\* C13: a request succeeds exactly when the recovered object resolves every
\* expected focus id, whatever other ids it holds; the positions it merges are
\* positions of the chunk; a request with a missing id fails and leaves the
\* window result, the count and the remaining focus as they were.
C13_AllExpectedOrNothing ==
    [][tr_pc = "request" =>
        LET req == tr_last'
            succeeded == tr_pc' = "outer"
        IN  /\ req.expected = GroupIdsOf(tr_cur_focus)
            /\ req.ok = succeeded
            /\ succeeded = AllResolved(req)
            /\ succeeded =>
                /\ DOMAIN tr_out_by_pos' \subseteq
                       DOMAIN tr_out_by_pos \cup PositionsOf(tr_cur_focus)
                /\ \A k \in 1..Len(tr_cur_focus) :
                       tr_cur_focus[k].positions[1] \in DOMAIN tr_out_by_pos'
            /\ ~succeeded =>
                /\ tr_out_by_pos' = tr_out_by_pos
                /\ tr_translated' = tr_translated
                /\ tr_focus_remaining' = tr_focus_remaining
    ]_vars

\* the answer resolved the first expected id and an outside id but not the
\* last expected one: nothing of it is in the result
C13_Witness ==
    /\ tr_pc = "request" /\ ~tr_last.ok /\ tr_last.resp.kind = "object"
    /\ Len(tr_last.expected) >= 2
    /\ tr_last.expected[1] \in Resolved(tr_last)
    /\ tr_out_by_pos = EmptyMap

BudgetExceeded == tr_attempt + 1 > tr_max_retries
Halved(xs) == SubSeq(xs, 1, Max2(1, Len(xs) \div 2))

\* C16 as stated: while every request fails, every change of the chunk is a
\* halving, and the window ends failed with a chunk of size 1.
C16_HalvedUntilFailure ==
    /\ [][(tr_pc = "request" /\ tr_cur_focus' # tr_cur_focus) =>
             tr_cur_focus' = Halved(tr_cur_focus)]_vars
    /\ <>(tr_pc = "failed" /\ Len(tr_cur_focus) = 1)

\* C16, amended: while every request fails the chunk only ever shrinks, by a
\* halving on a retry within the budget when shrink_focus_on_retry is set, or
\* by the cut to its first group when the budget is exceeded; and the window
\* ends failed with a chunk of size 1.
C16_ShrinksUntilFailure ==
    /\ [][(tr_pc = "request" /\ tr_cur_focus' # tr_cur_focus) =>
             \/ tr_shrink /\ ~BudgetExceeded /\ tr_cur_focus' = Halved(tr_cur_focus)
             \/ BudgetExceeded /\ tr_cur_focus' = SubSeq(tr_cur_focus, 1, 1)]_vars
    /\ <>(tr_pc = "failed" /\ Len(tr_cur_focus) = 1)

\* a window of MaxFocus groups has failed
C16_Witness ==
    /\ tr_pc = "failed" /\ Len(tr_focus) = MaxFocus /\ tr_translated = 0
    /\ Len(tr_cur_focus) = 1

\* C17: a failure that takes the attempt counter past max_retries_per_window
\* cuts a chunk of several groups to its first group, resets the counter to 0
\* and goes on; it fails the window when the chunk is a single group; the
\* window fails in no other way, so never with a chunk of several groups.
C17_ForceShrink ==
    /\ [](tr_pc = "failed" => Len(tr_cur_focus) = 1)
    /\ [][(tr_pc = "request" /\ tr_pc' # "outer" /\ BudgetExceeded) =>
             IF Len(tr_cur_focus) > 1
             THEN /\ tr_cur_focus' = <<tr_cur_focus[1]>>
                  /\ tr_attempt' = 0
                  /\ tr_pc' = "request"
             ELSE tr_pc' = "failed"]_vars
    /\ [][tr_pc' = "failed" =>
             tr_pc = "request" /\ Len(tr_cur_focus) = 1 /\ BudgetExceeded]_vars

\* a chunk of several groups has just been cut to its first group
C17_Witness ==
    /\ tr_pc = "request" /\ tr_attempt = 0 /\ ~tr_last.ok
    /\ Len(tr_last.expected) > 1 /\ Len(tr_cur_focus) = 1
    /\ tr_last.expected[1] = tr_cur_focus[1].group_id
    /\ Len(tr_focus_remaining) > 1

\* C18: no focus group is held by more than one successful chunk, a group
\* that a successful chunk held is never in a later chunk, and the window
\* returns only when every focus group has been held by one, the returned
\* count being the size of the focus.
C18_SuccessCoversFocus ==
    /\ DOMAIN tr_covered = Range(GroupIdsOf(tr_focus))
    /\ \A g \in DOMAIN tr_covered : tr_covered[g] <= 1
    /\ tr_pc = "request" =>
           \A k \in 1..Len(tr_cur_focus) : tr_covered[tr_cur_focus[k].group_id] = 0
    /\ tr_pc = "done" =>
        /\ \A g \in DOMAIN tr_covered : tr_covered[g] = 1
        /\ tr_translated = Len(tr_focus)

\* a window translated in several chunks, the last of one group
C18_Witness ==
    /\ tr_pc = "done" /\ Len(tr_focus) >= 3
    /\ tr_last.ok /\ Len(tr_last.expected) = 1

(***************************************************************************)
(* Further claims about the Splitback Allocator.                           *)
(***************************************************************************)
\* C21: when the trimmed translated text is the music marker, the returned
\* map holds the marker for the first position and nothing for any other
\* position, and is empty for an empty position list.
C21_MusicFirstOnly ==
    (sp_pc = "done" /\ Strip(sp_text) = <<Music>>) =>
        /\ sp_positions = <<>> => sp_result = EmptyMap
        /\ sp_positions # <<>> =>
            /\ sp_positions[1] \in DOMAIN sp_result
            /\ sp_result[sp_positions[1]] = <<Music>>
            /\ \A k \in 2..Len(sp_positions) :
                   sp_positions[k] \notin DOMAIN sp_result

\* a padded music marker for a group of several positions
C21_Witness ==
    /\ sp_pc = "done" /\ sp_text = <<" ", Music, " ">>
    /\ Len(sp_positions) >= 2
    /\ DOMAIN sp_result = {sp_positions[1]}

\* the targets in hand are those of _targets_weighted_by_duration
DurationTargets ==
    /\ sp_pc \in {"greedy", "zip", "done"}
    /\ Strip(sp_text) # <<Music>>
    /\ UseDurations

\* min(total_chars, max_t * len(positions)) for the run in hand
CapTotal ==
    Min2(Max2(1, Len(Strip(sp_text))),
         sp_settings.split_max_line_chars * Len(sp_positions))

\* the lower clamp a target ends at: max(8, min_chunk_chars), cut to max_t
LowClamp ==
    Min2(sp_settings.split_max_line_chars,
         Max2(MinTarget, sp_settings.min_chunk_chars))

\* C22 as stated: the sum of the duration-weighted targets never exceeds
\* min(total translated length, max * number of positions).
C22_SumWithinCap ==
    DurationTargets => Sum(sp_targets) <= CapTotal

\* C22, amended: the sum of the duration-weighted targets exceeds
\* min(total translated length, max * number of positions) only when every
\* target sits at the lower clamp, the sum then being that clamp times the
\* number of positions.
C22_SumWithinCapOrClamp ==
    DurationTargets =>
        \/ Sum(sp_targets) <= CapTotal
        \/ \A k \in 1..Len(sp_targets) : sp_targets[k] = LowClamp

\* targets were taken down from above the cap to exactly the cap
C22_Witness ==
    /\ DurationTargets /\ Len(sp_positions) >= 2
    /\ Sum(sp_targets) = CapTotal
    /\ \E k \in 1..Len(sp_targets) : sp_targets[k] > LowClamp
    /\ \E k \in 1..Len(sp_targets) : sp_targets[k] < sp_settings.split_max_line_chars

(***************************************************************************)
(* Further claims about the Window Translator.                             *)
(***************************************************************************)
\* C30: a failed request that leaves the attempt counter within
\* max_retries_per_window adds one to the counter and asks again: with
\* shrink_focus_on_retry and a chunk of n > 1 groups, for the left n div 2
\* groups, at least one and fewer than n, the rest staying at the head of
\* the unprocessed focus; otherwise for the same chunk.
C30_RetryWithinBudget ==
    [][(tr_pc = "request" /\ tr_pc' # "outer" /\ ~BudgetExceeded) =>
        LET n == Len(tr_cur_focus) IN
        /\ tr_pc' = "request"
        /\ tr_attempt' = tr_attempt + 1
        /\ tr_focus_remaining' = tr_focus_remaining
        /\ tr_cur_focus' = SubSeq(tr_focus_remaining', 1, Len(tr_cur_focus'))
        /\ IF tr_shrink /\ n > 1
           THEN /\ Len(tr_cur_focus') = n \div 2
                /\ Len(tr_cur_focus') >= 1 /\ Len(tr_cur_focus') < n
           ELSE tr_cur_focus' = tr_cur_focus
    ]_vars

\* a chunk of three groups or more has been halved, the counter standing at 1
C30_Witness ==
    /\ tr_pc = "request" /\ tr_attempt = 1 /\ tr_shrink /\ ~tr_last.ok
    /\ Len(tr_last.expected) >= 3
    /\ Len(tr_cur_focus) = Len(tr_last.expected) \div 2

(***************************************************************************)
(* The Scheduler: translate_items_with_windows (pipeline.py).  Every       *)
(* window gets a run_one task; a task takes the semaphore, runs            *)
(* _translate_entire_window and gives the semaphore back; the main         *)
(* coroutine merges the results in the order the tasks finish.  A step of  *)
(* a task runs from one await to the next.                                 *)
(***************************************************************************)
\* a semaphore that never blocks
CanAcquire_always(value) == TRUE

\* Semaphore.acquire returns at once iff the value is positive
CanAcquire(value) == value > 0

\* a semaphore with one permit fewer
SemValue_one_less(concurrency) == concurrency - 1

\* getattr(settings, "concurrency", 1) or 1
SemValue(concurrency) == IF concurrency = 0 THEN 1 ELSE concurrency

\* a window result that also writes position 0
ChunkOut_shared(w, cur_focus) ==
    [p \in PositionsOf(cur_focus) \cup {0} |-> <<Letters[w]>>]

\* chunk_out of a successful request of window w: one text for every
\* position of the chunk's groups, the text being this window's own
ChunkOut(w, cur_focus) == [p \in PositionsOf(cur_focus) |-> <<Letters[w]>>]

\* whether the request for a chunk raises: a group of level 1 spoils every
\* chunk of several groups, a group of level 2 every chunk
RequestFails(cur_focus, hard) ==
    \E k \in 1..Len(cur_focus) :
        hard[cur_focus[k].group_id] >= (IF Len(cur_focus) > 1 THEN 1 ELSE 2)

\* an await that turns a failed task into an empty result
AwaitFut_swallow(task) == Returns(IF task.pc = "failed" THEN EmptyMap ELSE task.out_by_pos)

\* await fut: the task's result, or the exception it ended with
AwaitFut(task) ==
    IF task.pc = "failed" THEN Raises("chunk error") ELSE Returns(task.out_by_pos)

\* a task that has been created and has not run yet
NewTask(w) ==
    [pc |-> "created", focus_remaining |-> <<>>, cur_focus |-> <<>>,
     attempt |-> 0, out_by_pos |-> EmptyMap, acquired |-> 0, requests |-> 0]

NumWindows == Len(sc_windows)

\* the tasks that have finished, with a result or with an exception
Finished(w) == sc_task[w].pc \in {"done", "failed"}

(***************************************************************************)
(* Inputs: the windows, the settings and the model's behaviour.            *)
(***************************************************************************)
\* the focus lists of windows of the given sizes over consecutive groups
RECURSIVE CutWindows(_, _)
CutWindows(gs, sizes) ==
    IF sizes = <<>> THEN <<>>
    ELSE <<SubSeq(gs, 1, Head(sizes))>>
         \o CutWindows(SubSeq(gs, Head(sizes) + 1, Len(gs)), Tail(sizes))

WindowSizes == UNION { [1..n -> {1, 2}] : n \in 0..MaxWindows }

\* no group is hard, or one group is
HardPool(n) ==
    {[g \in 2..(n + 1) |-> 0]}
    \cup {[g \in 2..(n + 1) |-> IF g = h THEN lv ELSE 0] :
              h \in 2..(n + 1), lv \in {1, 2}}

InitSchedule ==
    /\ OnlySchedule
    /\ \E sizes \in WindowSizes :
        /\ sc_windows = CutWindows(MkFocus(Sum(sizes)), sizes)
        /\ sc_hard \in HardPool(Sum(sizes))
    /\ sc_concurrency \in 1..MaxConcurrency
    /\ sc_max_retries \in {0, 1}
    /\ sc_shrink \in BOOLEAN
    /\ sc_pc = "start"
    /\ sc_sem = 0
    /\ sc_task = <<>>
    /\ sc_finished = <<>>
    /\ sc_out_by_pos = EmptyMap
    /\ sc_result = Nothing

(***************************************************************************)
(* Actions.                                                                *)
(***************************************************************************)
\* make_windows, the semaphore and the tasks; with no window the loop over
\* as_completed is empty and the empty map is returned
ScStart ==
    /\ sc_pc = "start"
    /\ sc_sem' = SemValue(sc_concurrency)
    /\ sc_task' = [w \in 1..NumWindows |-> NewTask(w)]
    /\ IF NumWindows = 0
       THEN sc_pc' = "returned" /\ sc_result' = Just(sc_out_by_pos)
       ELSE sc_pc' = "running" /\ sc_result' = sc_result
    /\ UNCHANGED <<sc_concurrency, sc_windows, sc_max_retries, sc_shrink,
                   sc_hard, sc_finished, sc_out_by_pos, not_sc>>

\* async with sem, for the task that has waited longest, then
\* _translate_entire_window up to its first request
ScAcquire(w) ==
    /\ sc_pc # "start"
    /\ sc_task[w].pc = "created"
    /\ \A v \in 1..(w - 1) : sc_task[v].pc # "created"
    /\ CanAcquire(sc_sem)
    /\ sc_sem' = sc_sem - 1
    /\ sc_task' = [sc_task EXCEPT ![w] =
           [pc |-> "calling", focus_remaining |-> sc_windows[w],
            cur_focus |-> sc_windows[w], attempt |-> 0,
            out_by_pos |-> EmptyMap, acquired |-> 1, requests |-> 1]]
    /\ UNCHANGED <<sc_concurrency, sc_windows, sc_max_retries, sc_shrink,
                   sc_hard, sc_pc, sc_finished, sc_out_by_pos, sc_result,
                   not_sc>>

\* a request returns: the chunk is done; with focus left the next request
\* goes out, else the window result is returned and the semaphore released
ScRequestOk(w) ==
    /\ sc_pc # "start"
    /\ sc_task[w].pc = "calling"
    /\ ~RequestFails(sc_task[w].cur_focus, sc_hard)
    /\ LET t == sc_task[w]
           out == DictUpdate(t.out_by_pos, ChunkOut(w, t.cur_focus))
           rest == Advance(t.focus_remaining, t.cur_focus)
       IN IF rest = <<>>
          THEN /\ sc_task' = [sc_task EXCEPT ![w] =
                      [t EXCEPT !.pc = "done", !.out_by_pos = out,
                                !.focus_remaining = rest]]
               /\ sc_sem' = sc_sem + 1
               /\ sc_finished' = Append(sc_finished, w)
          ELSE /\ sc_task' = [sc_task EXCEPT ![w] =
                      [t EXCEPT !.out_by_pos = out, !.focus_remaining = rest,
                                !.cur_focus = rest, !.attempt = 0,
                                !.requests = t.requests + 1]]
               /\ UNCHANGED <<sc_sem, sc_finished>>
    /\ UNCHANGED <<sc_concurrency, sc_windows, sc_max_retries, sc_shrink,
                   sc_hard, sc_pc, sc_out_by_pos, sc_result, not_sc>>

\* a request raises: the except clause either asks again or re-raises, and
\* then the task ends with the exception and the semaphore is released
ScRequestRaises(w) ==
    /\ sc_pc # "start"
    /\ sc_task[w].pc = "calling"
    /\ RequestFails(sc_task[w].cur_focus, sc_hard)
    /\ LET t == sc_task[w]
           h == OnChunkFailure(t.cur_focus, t.attempt, sc_max_retries, sc_shrink)
       IN IF h.pc = "failed"
          THEN /\ sc_task' = [sc_task EXCEPT ![w] =
                      [t EXCEPT !.pc = "failed", !.attempt = h.attempt]]
               /\ sc_sem' = sc_sem + 1
               /\ sc_finished' = Append(sc_finished, w)
          ELSE /\ sc_task' = [sc_task EXCEPT ![w] =
                      [t EXCEPT !.cur_focus = h.cur_focus,
                                !.attempt = h.attempt,
                                !.requests = t.requests + 1]]
               /\ UNCHANGED <<sc_sem, sc_finished>>
    /\ UNCHANGED <<sc_concurrency, sc_windows, sc_max_retries, sc_shrink,
                   sc_hard, sc_pc, sc_out_by_pos, sc_result, not_sc>>

\* one turn of the loop over as_completed: await the next finished task,
\* merge its result; after the last task, return out_by_pos
ScObserve ==
    /\ sc_pc = "running"
    /\ sc_finished # <<>>
    /\ LET r == AwaitFut(sc_task[Head(sc_finished)])
       IN IF ~r.ok
          THEN /\ sc_pc' = "raised"
               /\ UNCHANGED <<sc_out_by_pos, sc_result>>
          ELSE /\ sc_out_by_pos' = DictUpdate(sc_out_by_pos, r.value)
               /\ IF Tail(sc_finished) = <<>> /\ \A w \in 1..NumWindows : Finished(w)
                  THEN sc_pc' = "returned" /\ sc_result' = Just(sc_out_by_pos')
                  ELSE sc_pc' = sc_pc /\ sc_result' = sc_result
    /\ sc_finished' = Tail(sc_finished)
    /\ UNCHANGED <<sc_concurrency, sc_windows, sc_max_retries, sc_shrink,
                   sc_hard, sc_sem, sc_task, not_sc>>

\* the error has left run_translate: asyncio.run (yasts.py) cancels every
\* task that has not finished, a waiting one in its acquire, a running one
\* in its model call, which gives the semaphore back on the way out; the
\* tasks that were ready when the error was raised may have run a step
ScShutdown ==
    /\ sc_pc = "raised"
    /\ \E w \in 1..Len(sc_task) : sc_task[w].pc \in {"created", "calling"}
    /\ sc_task' = [w \in 1..Len(sc_task) |->
                      IF sc_task[w].pc \in {"created", "calling"}
                      THEN [sc_task[w] EXCEPT !.pc = "cancelled"]
                      ELSE sc_task[w]]
    /\ sc_sem' = sc_sem + Cardinality({w \in 1..Len(sc_task) : sc_task[w].pc = "calling"})
    /\ UNCHANGED <<sc_concurrency, sc_windows, sc_max_retries, sc_shrink,
                   sc_hard, sc_pc, sc_finished, sc_out_by_pos, sc_result,
                   not_sc>>

NextSchedule ==
    \/ ScStart
    \/ \E w \in 1..Len(sc_task) : ScAcquire(w)
    \/ \E w \in 1..Len(sc_task) : ScRequestOk(w)
    \/ \E w \in 1..Len(sc_task) : ScRequestRaises(w)
    \/ ScObserve
    \/ ScShutdown

SpecSchedule == InitSchedule /\ [][NextSchedule]_vars

\* the runs with one retry for a chunk and shrinking on
InitScheduleFair == InitSchedule /\ sc_max_retries = 1 /\ sc_shrink

\* the event loop runs a task that is ready and every model call returns
\* or raises in the end: while a step is possible, one is taken
SpecScheduleFair ==
    InitScheduleFair /\ [][NextSchedule]_vars /\ WF_vars(NextSchedule)

(***************************************************************************)
(* Claims about the Scheduler.                                             *)
(***************************************************************************)
\* the windows with a model call in flight
InFlight == {w \in 1..Len(sc_task) : sc_task[w].pc = "calling"}

\* C23: the number of windows with a model call in flight never exceeds the
\* configured concurrency (1 when none is configured).
C23_InFlightWithinLimit == Cardinality(InFlight) <= Max2(1, sc_concurrency)

\* two windows have calls in flight, a third waits for the semaphore
C23_Witness ==
    /\ sc_concurrency = 2 /\ Cardinality(InFlight) = 2
    /\ \E w \in 1..Len(sc_task) : sc_task[w].pc = "created"
    /\ \E w \in InFlight : sc_task[w].requests >= 2

\* C24: a window task takes the semaphore once for every model request it
\* makes.
C24_GatePerRequest ==
    \A w \in 1..Len(sc_task) : sc_task[w].acquired = sc_task[w].requests

\* the aggregate map when the windows are merged in submission order
RECURSIVE MergedInOrder(_)
MergedInOrder(k) ==
    IF k = 0 THEN EmptyMap
    ELSE DictUpdate(MergedInOrder(k - 1), sc_task[k].out_by_pos)

\* C25: no two windows write the same position, and the returned map is the
\* one a merge in submission order gives, whatever the order the windows
\* finished in.
C25_OrderIndependent ==
    /\ \A v, w \in 1..Len(sc_task) :
           v # w => DOMAIN sc_task[v].out_by_pos \cap DOMAIN sc_task[w].out_by_pos = {}
    /\ sc_pc = "returned" => sc_result = Just(MergedInOrder(NumWindows))

\* a later window finished and was merged before an earlier one, and the
\* run has returned
C25_Witness ==
    /\ sc_pc = "returned" /\ NumWindows >= 2
    /\ sc_result[1] # EmptyMap
    /\ sc_task[1].requests > sc_task[2].requests + 1

AnyFailed == \E w \in 1..Len(sc_task) : sc_task[w].pc = "failed"

\* C26: once a window has failed the run returns no map, whatever the other
\* windows did and whatever the failed window had translated before, and
\* the turn of the loop that comes to the failed window raises its error
\* to the caller.
C26_FailureAborts ==
    /\ [](AnyFailed => (sc_pc # "returned" /\ sc_result = Nothing))
    /\ [](sc_pc = "raised" => (AnyFailed /\ sc_result = Nothing))
    /\ [][(sc_pc = "running" /\ sc_finished # <<>> /\ sc_finished' = Tail(sc_finished)
            /\ sc_task[Head(sc_finished)].pc = "failed")
           => (sc_pc' = "raised" /\ sc_out_by_pos' = sc_out_by_pos)]_vars

\* the run has raised although one window finished and was merged and the
\* failed window had translated a chunk before it failed
C26_Witness ==
    /\ sc_pc = "raised" /\ sc_out_by_pos # EmptyMap
    /\ \E w \in 1..Len(sc_task) :
           sc_task[w].pc = "failed" /\ sc_task[w].out_by_pos # EmptyMap

(***************************************************************************)
(* The JSON Recoverer: parse_model_json (json_parse.py).  Texts are        *)
(* sequences of characters; json.loads is modelled by a parser for         *)
(* objects, arrays, strings, integers and the three literals.              *)
(***************************************************************************)
Quote == "\""
Backslash == "\\"
NL == "\n"
\* U+FEFF, the byte-order mark, one character
BOM == "<U+FEFF>"
\* U+0060, the backtick, one character
Backtick == "<U+0060>"
Fence == <<Backtick, Backtick, Backtick>>

\* the whitespace of str.strip, of \s and of JSON
IsWs(c) == c \in {" ", NL, "\t", "\r"}

\* the first index at or after i that holds no whitespace
RECURSIVE SkipWs(_, _)
SkipWs(s, i) == IF i <= Len(s) /\ IsWs(s[i]) THEN SkipWs(s, i + 1) ELSE i

\* the last index at or before i that holds no whitespace, 0 if there is none
RECURSIVE LastNonWs(_, _)
LastNonWs(s, i) == IF i >= 1 /\ IsWs(s[i]) THEN LastNonWs(s, i - 1) ELSE i

\* s.strip()
WsStrip(s) == SubSeq(s, SkipWs(s, 1), LastNonWs(s, Len(s)))

\* s[i:].startswith(p), for a 1-based i
MatchAt(s, i, p) ==
    i >= 1 /\ i + Len(p) - 1 <= Len(s) /\ SubSeq(s, i, i + Len(p) - 1) = p

\* "json" at index i, in any case
IsJsonWord(s, i) ==
    /\ i + 3 <= Len(s)
    /\ s[i] \in {"j", "J"} /\ s[i + 1] \in {"s", "S"}
    /\ s[i + 2] \in {"o", "O"} /\ s[i + 3] \in {"n", "N"}

\* _CODE_FENCE_RE.sub("", s) for an s that starts with a fence: the opening
\* fence with its language word and whitespace goes, and so does a fence
\* at the very end with the whitespace before it
CodeFenceSub(s) ==
    LET r == SubSeq(s, SkipWs(s, IF IsJsonWord(s, 4) THEN 8 ELSE 4), Len(s))
    IN IF MatchAt(r, Len(r) - 2, Fence)
       THEN SubSeq(r, 1, LastNonWs(r, Len(r) - 3))
       ELSE r

\* _strip_wrappers(s)
_strip_wrappers(s) ==
    LET s1 == IF s # <<>> /\ s[1] = BOM THEN Tail(s) ELSE s
        s2 == WsStrip(s1)
    IN IF MatchAt(s2, 1, Fence) THEN WsStrip(CodeFenceSub(s2)) ELSE s2

\* the first index at or after i that holds a newline, Len(s) + 1 if none
RECURSIVE LineEnd(_, _)
LineEnd(s, i) == IF i <= Len(s) /\ s[i] # NL THEN LineEnd(s, i + 1) ELSE i

\* the indices _JSON_COMMENT_RE matches: from the start of a line, the
\* whitespace (newlines too) before a // and the rest of the line of the //
CommentIndices(s) ==
    {i \in 1..Len(s) :
        \E p \in 1..i :
            /\ p = 1 \/ s[p - 1] = NL
            /\ MatchAt(s, SkipWs(s, p), <<"/", "/">>)
            /\ i < LineEnd(s, SkipWs(s, p))}

\* the characters of s at the indices of keep, in their order
Keep(s, keep) ==
    [k \in 1..Cardinality(keep) |->
        s[CHOOSE i \in keep : Cardinality({j \in keep : j <= i}) = k]]

\* strip_json_comments(s)
strip_json_comments(s) == Keep(s, (1..Len(s)) \ CommentIndices(s))

(***************************************************************************)
(* json.loads                                                              *)
(***************************************************************************)
Digits == <<"0", "1", "2", "3", "4", "5", "6", "7", "8", "9">>
IsDigit(c) == c \in Range(Digits)
DigitVal(c) == (CHOOSE k \in 1..10 : Digits[k] = c) - 1

\* what a scan returns: a value and the index after it, or a failure
Parsed(v, i) == [ok |-> TRUE, v |-> v, i |-> i]
NoParse == [ok |-> FALSE, v |-> JNull, i |-> 0]

\* the character an escape stands for, "" for an escape json rejects
Unescape(c) ==
    CASE c \in {Quote, Backslash, "/"} -> c
      [] c = "n" -> NL
      [] c = "t" -> "\t"
      [] c = "r" -> "\r"
      [] c = "b" -> "<U+0008>"
      [] c = "f" -> "<U+000C>"
      [] OTHER -> ""

\* scanstring from index i, just after the opening quote (strict mode)
RECURSIVE ScanString(_, _, _)
ScanString(s, i, acc) ==
    IF i > Len(s) THEN NoParse
    ELSE IF s[i] = Quote THEN Parsed(acc, i + 1)
    ELSE IF s[i] = Backslash
         THEN IF i + 1 > Len(s) \/ Unescape(s[i + 1]) = "" THEN NoParse
              ELSE ScanString(s, i + 2, Append(acc, Unescape(s[i + 1])))
    ELSE IF s[i] \in {NL, "\t", "\r"} THEN NoParse
    ELSE ScanString(s, i + 1, Append(acc, s[i]))

\* the digits from index i on, as a number
RECURSIVE ScanDigits(_, _, _)
ScanDigits(s, i, n) ==
    IF i <= Len(s) /\ IsDigit(s[i])
    THEN ScanDigits(s, i + 1, 10 * n + DigitVal(s[i]))
    ELSE Parsed(JInt(n), i)

\* NUMBER_RE at index i: -?(0|[1-9]\d*)
ScanNumber(s, i) ==
    LET d == IF s[i] = "-" THEN i + 1 ELSE i
        r == IF s[d] = "0" THEN Parsed(JInt(0), d + 1) ELSE ScanDigits(s, d, 0)
    IN IF d > Len(s) \/ ~IsDigit(s[d]) THEN NoParse
       ELSE IF s[i] = "-" THEN Parsed(JInt(0 - r.v.n), r.i) ELSE r

\* pairs with key set to val: a dict keeps the place of a key it has
PairsSet(pairs, key, val) ==
    IF \E k \in 1..Len(pairs) : pairs[k].k = key
    THEN [k \in 1..Len(pairs) |->
             IF pairs[k].k = key THEN Pair(key, val) ELSE pairs[k]]
    ELSE Append(pairs, Pair(key, val))

RECURSIVE ScanValue(_, _)
RECURSIVE ScanMembers(_, _, _)
RECURSIVE ScanElements(_, _, _)

\* scan_once at index i
ScanValue(s, i) ==
    IF i > Len(s) THEN NoParse
    ELSE IF s[i] = Quote
         THEN LET r == ScanString(s, i + 1, <<>>)
              IN IF r.ok THEN Parsed(JStr(r.v), r.i) ELSE NoParse
    ELSE IF s[i] = "{"
         THEN LET j == SkipWs(s, i + 1)
              IN IF j <= Len(s) /\ s[j] = "}" THEN Parsed(JDict(<<>>), j + 1)
                 ELSE ScanMembers(s, j, <<>>)
    ELSE IF s[i] = "["
         THEN LET j == SkipWs(s, i + 1)
              IN IF j <= Len(s) /\ s[j] = "]" THEN Parsed(JList(<<>>), j + 1)
                 ELSE ScanElements(s, j, <<>>)
    ELSE IF s[i] = "-" \/ IsDigit(s[i]) THEN ScanNumber(s, i)
    ELSE IF MatchAt(s, i, <<"n", "u", "l", "l">>) THEN Parsed(JNull, i + 4)
    ELSE IF MatchAt(s, i, <<"t", "r", "u", "e">>) THEN Parsed(JBool(TRUE), i + 4)
    ELSE IF MatchAt(s, i, <<"f", "a", "l", "s", "e">>) THEN Parsed(JBool(FALSE), i + 5)
    ELSE NoParse

\* JSONObject from the key at index j on
ScanMembers(s, j, pairs) ==
    IF j > Len(s) \/ s[j] # Quote THEN NoParse
    ELSE LET key == ScanString(s, j + 1, <<>>)
             c == SkipWs(s, key.i)
             val == ScanValue(s, SkipWs(s, c + 1))
             e == SkipWs(s, val.i)
             out == PairsSet(pairs, key.v, val.v)
         IN IF ~key.ok \/ c > Len(s) \/ s[c] # ":" THEN NoParse
            ELSE IF ~val.ok \/ e > Len(s) THEN NoParse
            ELSE IF s[e] = "}" THEN Parsed(JDict(out), e + 1)
            ELSE IF s[e] = "," THEN ScanMembers(s, SkipWs(s, e + 1), out)
            ELSE NoParse

\* JSONArray from the element at index j on
ScanElements(s, j, xs) ==
    LET val == ScanValue(s, j)
        e == SkipWs(s, val.i)
    IN IF ~val.ok \/ e > Len(s) THEN NoParse
       ELSE IF s[e] = "]" THEN Parsed(JList(Append(xs, val.v)), e + 1)
       ELSE IF s[e] = "," THEN ScanElements(s, SkipWs(s, e + 1), Append(xs, val.v))
       ELSE NoParse

\* json.loads(s)
Loads(s) ==
    LET r == ScanValue(s, SkipWs(s, 1))
    IN IF r.ok /\ SkipWs(s, r.i) > Len(s) THEN Returns(r.v)
       ELSE Raises("JSONDecodeError")

\* _loads_object(s)
_loads_object(s) ==
    LET r == Loads(s)
    IN IF r.ok /\ ~IsDict(r.value) THEN Raises("ValueError") ELSE r

(***************************************************************************)
(* Balancing, substring extraction and quote repair                        *)
(***************************************************************************)
\* the closers of the stack in the order they were pushed
BalanceTail_not_reversed(stack) == stack

\* "".join(reversed(stack))
BalanceTail(stack) == Reverse(stack)

\* one turn of the loop of _balance_json_delimiters; bad stands for the
\* early return at a mismatched closer
BalanceStep(st, ch) ==
    IF st.bad THEN st
    ELSE IF st.in_str
         THEN IF st.esc THEN [st EXCEPT !.esc = FALSE]
              ELSE IF ch = Backslash THEN [st EXCEPT !.esc = TRUE]
              ELSE IF ch = Quote THEN [st EXCEPT !.in_str = FALSE]
              ELSE st
    ELSE IF ch = Quote THEN [st EXCEPT !.in_str = TRUE]
    ELSE IF ch = "{" THEN [st EXCEPT !.stack = Append(st.stack, "}")]
    ELSE IF ch = "[" THEN [st EXCEPT !.stack = Append(st.stack, "]")]
    ELSE IF ch \in {"}", "]"}
         THEN IF st.stack # <<>> /\ ch = st.stack[Len(st.stack)]
              THEN [st EXCEPT !.stack = SubSeq(st.stack, 1, Len(st.stack) - 1)]
              ELSE [st EXCEPT !.bad = TRUE]
    ELSE st

\* the loop over the characters lo..hi, one half after the other
RECURSIVE BalanceScan(_, _, _, _)
BalanceScan(s, lo, hi, st) ==
    IF lo > hi THEN st
    ELSE IF lo = hi THEN BalanceStep(st, s[lo])
    ELSE LET left == BalanceScan(s, lo, (lo + hi) \div 2, st)
         IN IF left.bad THEN left
            ELSE BalanceScan(s, ((lo + hi) \div 2) + 1, hi, left)

\* _balance_json_delimiters(s)
_balance_json_delimiters(s) ==
    LET st == BalanceScan(s, 1, Len(s),
                          [stack |-> <<>>, in_str |-> FALSE, esc |-> FALSE,
                           bad |-> FALSE])
    IN IF st.bad \/ st.in_str \/ st.stack = <<>> THEN s
       ELSE s \o BalanceTail(st.stack)

\* the first index that holds { or [, 0 if there is none
FirstOpen(s) ==
    LET opens == {i \in 1..Len(s) : s[i] \in {"{", "["}}
    IN IF opens = {} THEN 0 ELSE CHOOSE i \in opens : \A j \in opens : i <= j

\* one turn of the second loop of find_first_json_substring, at index j;
\* stop is the index at which the depth returned to zero
DepthStep(st, ch, j, open_ch) ==
    IF st.stop # 0 THEN st
    ELSE IF st.in_str
         THEN IF st.esc THEN [st EXCEPT !.esc = FALSE]
              ELSE IF ch = Backslash THEN [st EXCEPT !.esc = TRUE]
              ELSE IF ch = Quote THEN [st EXCEPT !.in_str = FALSE]
              ELSE st
    ELSE IF ch = Quote THEN [st EXCEPT !.in_str = TRUE]
    ELSE IF ch = open_ch THEN [st EXCEPT !.depth = st.depth + 1]
    ELSE IF ch = (IF open_ch = "{" THEN "}" ELSE "]")
         THEN IF st.depth - 1 = 0 THEN [st EXCEPT !.depth = 0, !.stop = j]
              ELSE [st EXCEPT !.depth = st.depth - 1]
    ELSE st

\* the loop over the characters lo..hi, one half after the other
RECURSIVE DepthScan(_, _, _, _, _)
DepthScan(s, lo, hi, open_ch, st) ==
    IF lo > hi THEN st
    ELSE IF lo = hi THEN DepthStep(st, s[lo], lo, open_ch)
    ELSE LET left == DepthScan(s, lo, (lo + hi) \div 2, open_ch, st)
         IN IF left.stop # 0 THEN left
            ELSE DepthScan(s, ((lo + hi) \div 2) + 1, hi, open_ch, left)

\* find_first_json_substring(s): Just the substring, or Nothing
find_first_json_substring(s0) ==
    LET s == WsStrip(s0)
        start == FirstOpen(s)
        st == DepthScan(s, start, Len(s), s[start],
                        [depth |-> 0, in_str |-> FALSE, esc |-> FALSE, stop |-> 0])
    IN IF s = <<>> \/ start = 0 THEN Nothing
       ELSE IF st.stop = 0 THEN Nothing
       ELSE Just(SubSeq(s, start, st.stop))

\* the number of backslashes that end at index j
RECURSIVE BackslashRun(_, _)
BackslashRun(s, j) ==
    IF j >= 1 /\ s[j] = Backslash THEN 1 + BackslashRun(s, j - 1) ELSE 0

\* _is_escaped(s, i)
_is_escaped(s, i) == BackslashRun(s, i - 1) % 2 = 1

LineKey == <<Quote, "l", "i", "n", "e", Quote>>

\* the index after a match of _LINE_VALUE_START_RE that starts at index m,
\* 0 if there is no match there
LineValueAt(s, m) ==
    LET c == SkipWs(s, m + 6)
        q == SkipWs(s, c + 1)
    IN IF MatchAt(s, m, LineKey) /\ c <= Len(s) /\ s[c] = ":"
          /\ q <= Len(s) /\ s[q] = Quote
       THEN q + 1 ELSE 0

\* _LINE_VALUE_START_RE.search(s, pos): the start of the first match at or
\* after pos, 0 if there is none
LineValueSearch(s, pos) ==
    LET hits == {m \in pos..Len(s) : LineValueAt(s, m) # 0}
    IN IF hits = {} THEN 0 ELSE CHOOSE m \in hits : \A n \in hits : m <= n

\* an unescaped quote at index i
BareQuote(s, i) == s[i] = Quote /\ ~_is_escaped(s, i)

\* the closing quote of the "line" value that starts at index i: the first
\* unescaped quote followed, whitespace apart, by , or }; 0 if there is none
Terminator(s, i) ==
    LET ends == {j \in i..Len(s) :
                    /\ BareQuote(s, j)
                    /\ SkipWs(s, j + 1) <= Len(s)
                    /\ s[SkipWs(s, j + 1)] \in {",", "}"}}
    IN IF ends = {} THEN 0 ELSE CHOOSE j \in ends : \A k \in ends : j <= k

\* buf for the characters lo..hi: every unescaped quote gets a backslash
RECURSIVE EscapeQuotes(_, _, _)
EscapeQuotes(s, lo, hi) ==
    IF lo > hi THEN <<>>
    ELSE IF lo = hi
         THEN (IF BareQuote(s, lo) THEN <<Backslash, Quote>> ELSE <<s[lo]>>)
    ELSE EscapeQuotes(s, lo, (lo + hi) \div 2)
         \o EscapeQuotes(s, ((lo + hi) \div 2) + 1, hi)

\* the walk through one "line" value from index i on
RepairValue(s, i, repairs) ==
    LET t == Terminator(s, i)
        last == IF t = 0 THEN Len(s) ELSE t - 1
    IN [closed |-> t # 0,
        buf |-> EscapeQuotes(s, i, last),
        i |-> last + 2,
        repairs |-> repairs + Cardinality({j \in i..last : BareQuote(s, j)})]

\* the outer loop of _repair_unescaped_quotes_in_line_fields from pos on
RECURSIVE RepairLoop(_, _, _, _)
RepairLoop(s, pos, out, repairs) ==
    LET m == LineValueSearch(s, pos)
        i == LineValueAt(s, m)
        v == RepairValue(s, i, repairs)
        head == out \o SubSeq(s, pos, i - 1)
    IN IF m = 0
       THEN [text |-> out \o SubSeq(s, pos, Len(s)), repairs |-> repairs]
       ELSE IF v.closed
            THEN RepairLoop(s, v.i, head \o v.buf \o <<Quote>>, v.repairs)
            ELSE [text |-> head \o v.buf, repairs |-> v.repairs]

\* _repair_unescaped_quotes_in_line_fields(s)
_repair_unescaped_quotes_in_line_fields(s) == RepairLoop(s, 1, <<>>, 0)

(***************************************************************************)
(* Inputs: what the model meant to write and how it wrote it.              *)
(***************************************************************************)
\* a string literal; raw leaves the quotes inside it as they are
RECURSIVE RenderChars(_, _)
RenderChars(x, raw) ==
    IF x = <<>> THEN <<>>
    ELSE (IF Head(x) = Backslash \/ (Head(x) = Quote /\ ~raw)
          THEN <<Backslash, Head(x)>> ELSE <<Head(x)>>)
         \o RenderChars(Tail(x), raw)

RECURSIVE RenderInt(_)
RenderInt(n) ==
    IF n < 10 THEN <<Digits[n + 1]>>
    ELSE RenderInt(n \div 10) \o <<Digits[(n % 10) + 1]>>

\* the compact JSON text of a value
RECURSIVE Render(_, _)
RECURSIVE RenderItems(_, _)
RECURSIVE RenderPairs(_, _)
Render(v, raw) ==
    CASE v.t = "str" -> <<Quote>> \o RenderChars(v.s, raw) \o <<Quote>>
      [] v.t = "int" -> RenderInt(v.n)
      [] v.t = "list" -> <<"[">> \o RenderItems(v.xs, raw) \o <<"]">>
      [] v.t = "dict" -> <<"{">> \o RenderPairs(v.kv, raw) \o <<"}">>
      [] OTHER -> <<"n", "u", "l", "l">>
RenderItems(xs, raw) ==
    IF xs = <<>> THEN <<>>
    ELSE Render(Head(xs), raw)
         \o (IF Len(xs) > 1 THEN <<",">> ELSE <<>>) \o RenderItems(Tail(xs), raw)
RenderPairs(kv, raw) ==
    IF kv = <<>> THEN <<>>
    ELSE <<Quote>> \o RenderChars(Head(kv).k, raw) \o <<Quote, ":">>
         \o Render(Head(kv).v, raw)
         \o (IF Len(kv) > 1 THEN <<",">> ELSE <<>>) \o RenderPairs(Tail(kv), raw)

K_a == <<"a">>
K_line == <<"l", "i", "n", "e">>
K_group_id == <<"g", "r", "o", "u", "p", "_", "i", "d">>
K_translations == <<"t", "r", "a", "n", "s", "l", "a", "t", "i", "o", "n", "s">>

\* {"translations":[{"group_id":g,"line":text}, ...]}
Translations(lines) ==
    JDict(<<Pair(K_translations,
                 JList([k \in 1..Len(lines) |->
                           JDict(<<Pair(K_group_id, JInt(k)),
                                   Pair(K_line, JStr(lines[k]))>>)]))>>)

ObjEmpty == JDict(<<>>)
ObjA == JDict(<<Pair(K_a, JInt(1))>>)
ObjNested ==
    JDict(<<Pair(K_a, JList(<<JInt(1), JDict(<<Pair(<<"b">>, JStr(<<"x">>))>>)>>))>>)
ObjBrace == JDict(<<Pair(K_a, JStr(<<"x", "}">>))>>)
ObjSlashes == JDict(<<Pair(<<"u">>, JStr(<<"/", "/", "x">>))>>)
ObjEscaped == JDict(<<Pair(K_a, JStr(<<"x", Quote, "y">>))>>)
\* the lines of which every inner quote is followed by neither , nor }
ObjSaid == Translations(<<<<"h", "e", " ", "s", "a", "i", "d", " ", Quote, "h", "i", Quote, " ", "t", "o", " ", "h", "e", "r">>>>)
ObjPair == JDict(<<Pair(K_line, JStr(<<"s", "a", "y", " ", Quote, "h", "i", Quote, " ", "n", "o", "w">>))>>)
ObjInch == JDict(<<Pair(K_line, JStr(<<"a", " ", "6", Quote, " ", "n", "a", "i", "l">>))>>)
ObjEdges ==
    JDict(<<Pair(K_a, JList(<<JDict(<<Pair(K_line, JStr(<<Quote, "a", Quote, " ", "b">>))>>),
                              JDict(<<Pair(K_line, JStr(<<"c", " ", Quote, "d", Quote>>))>>)>>))>>)
\* a line with an inner quote followed by a comma
ObjComma == JDict(<<Pair(K_line, JStr(<<"s", "a", "y", " ", Quote, "h", "i", Quote, ",", " ", "o", "k">>))>>)

QuotedLines == {ObjSaid, ObjPair, ObjInch, ObjEdges}
WrittenObjects ==
    {ObjEmpty, ObjA, ObjNested, ObjBrace, ObjSlashes, ObjEscaped, ObjComma}
    \cup QuotedLines

Note == <<"/", "/", " ", "n", "o", "t", "e">>

\* the text the model wrote for obj: the way is a kind and a number
Written(obj, how) ==
    LET t == Render(obj, FALSE)
        kind == how[1]
        k == how[2]
    IN CASE kind = "plain" -> t
         [] kind = "bom" -> <<BOM, " ">> \o t \o <<NL>>
         [] kind = "fence" ->
              (CASE k = 0 -> Fence \o <<"j", "s", "o", "n", NL>>
                 [] k = 1 -> Fence \o <<NL>>
                 [] OTHER -> Fence \o <<"J", "S", "O", "N", " ", NL>>)
              \o t \o <<NL>> \o Fence
              \o (IF k = 2 THEN <<NL, "D", "o", "n", "e", ".">> ELSE <<>>)
         [] kind = "comment" ->
              (CASE k = 0 -> Note \o <<NL>> \o t
                 [] k = 1 -> t \o <<NL>> \o Note
                 [] k = 2 -> <<Head(t), NL, " ">> \o Note \o <<NL>> \o Tail(t)
                 [] OTHER -> <<Head(t), " ">> \o Note \o <<NL>> \o Tail(t))
         [] kind = "prose" ->
              (CASE k = 0 -> <<"H", "e", "r", "e", ":", " ">> \o t
                 [] k = 1 -> t \o <<" ", "D", "o", "n", "e", ".">>
                 [] k = 2 -> <<"H", "e", "r", "e", ":", " ">> \o t \o <<" ", "D", "o", "n", "e", ".">>
                 [] k = 3 -> <<"S", "e", "e", " ", "[", "1", "]", ":", " ">> \o t
                 [] OTHER -> <<"U", "s", "e", " ", "{", "x", "}", ":", " ">> \o t)
         [] kind = "cut" -> SubSeq(t, 1, Len(t) - k)
         [] kind = "extra" ->
              t \o (CASE k = 0 -> <<"}">> [] k = 1 -> <<"]">> [] OTHER -> <<" ", Quote>>)
         [] kind = "wrong" -> SubSeq(t, 1, Len(t) - 1) \o <<"]">>
         [] kind = "raw" ->
              LET r == Render(obj, TRUE) IN SubSeq(r, 1, Len(r) - k)

Wrappings ==
    ({"fence"} \X {0, 1, 2}) \cup ({"comment"} \X {0, 1, 2, 3})
    \cup ({"prose"} \X {0, 1, 2, 3, 4}) \cup {<<"bom", 0>>}
Damages ==
    ({"cut"} \X (1..MaxCut)) \cup ({"extra"} \X {0, 1, 2}) \cup {<<"wrong", 0>>}
HowPool == {<<"plain", 0>>} \cup Wrappings \cup Damages \cup ({"raw"} \X {0, 1})

InitParse ==
    /\ OnlyParse
    /\ pj_obj \in WrittenObjects
    /\ pj_how \in HowPool
    /\ pj_how[1] = "raw" => pj_obj \in QuotedLines \cup {ObjComma, ObjEscaped}
    /\ pj_text = Written(pj_obj, pj_how)
    /\ pj_pc = "start"
    /\ pj_s = <<>>
    /\ pj_sub = Nothing
    /\ pj_result = Raises("none")

(***************************************************************************)
(* Actions: the stages of parse_model_json.                                *)
(***************************************************************************)
\* s = strip_json_comments(_strip_wrappers(model_text))
PjClean ==
    /\ pj_pc = "start"
    /\ pj_s' = strip_json_comments(_strip_wrappers(pj_text))
    /\ pj_pc' = "full"
    /\ UNCHANGED <<pj_obj, pj_how, pj_text, pj_sub, pj_result, not_pj>>

\* 1) the full parse; any exception leads on
PjFull ==
    /\ pj_pc = "full"
    /\ LET r == _loads_object(pj_s)
       IN IF r.ok THEN pj_pc' = "done" /\ pj_result' = r
          ELSE pj_pc' = "balance_full" /\ pj_result' = pj_result
    /\ UNCHANGED <<pj_obj, pj_how, pj_text, pj_s, pj_sub, not_pj>>

\* 1b) balancing on the full text; any exception leads on
PjBalanceFull ==
    /\ pj_pc = "balance_full"
    /\ LET b == _balance_json_delimiters(pj_s)
           r == _loads_object(b)
       IN IF b # pj_s /\ r.ok THEN pj_pc' = "done" /\ pj_result' = r
          ELSE pj_pc' = "substring" /\ pj_result' = pj_result
    /\ UNCHANGED <<pj_obj, pj_how, pj_text, pj_s, pj_sub, not_pj>>

\* 2) the substring parse; only a JSONDecodeError leads on
PjSubstring ==
    /\ pj_pc = "substring"
    /\ pj_sub' = find_first_json_substring(pj_s)
    /\ LET r == IF pj_sub' = Nothing THEN _loads_object(pj_s)
                ELSE _loads_object(pj_sub'[1])
       IN IF pj_sub' # Nothing /\ ~r.ok /\ r.exc = "JSONDecodeError"
          THEN pj_pc' = "balance_sub" /\ pj_result' = pj_result
          ELSE pj_pc' = "done" /\ pj_result' = r
    /\ UNCHANGED <<pj_obj, pj_how, pj_text, pj_s, not_pj>>

\* 3) balancing on the substring; only a JSONDecodeError leads on
PjBalanceSub ==
    /\ pj_pc = "balance_sub"
    /\ LET b == _balance_json_delimiters(pj_sub[1])
           r == _loads_object(b)
       IN IF b # pj_sub[1] /\ (r.ok \/ r.exc # "JSONDecodeError")
          THEN pj_pc' = "done" /\ pj_result' = r
          ELSE pj_pc' = "repair" /\ pj_result' = pj_result
    /\ UNCHANGED <<pj_obj, pj_how, pj_text, pj_s, pj_sub, not_pj>>

\* 4) the quote repair, balanced again, or else the error of the substring
PjRepair ==
    /\ pj_pc = "repair"
    /\ LET rep == _repair_unescaped_quotes_in_line_fields(pj_sub[1])
       IN pj_result' = IF rep.repairs > 0
                       THEN _loads_object(_balance_json_delimiters(rep.text))
                       ELSE _loads_object(pj_sub[1])
    /\ pj_pc' = "done"
    /\ UNCHANGED <<pj_obj, pj_how, pj_text, pj_s, pj_sub, not_pj>>

NextParse ==
    \/ PjClean
    \/ PjFull
    \/ PjBalanceFull
    \/ PjSubstring
    \/ PjBalanceSub
    \/ PjRepair

SpecParse == InitParse /\ [][NextParse]_vars

(***************************************************************************)
(* Claims about the JSON Recoverer.                                        *)
(***************************************************************************)
\* parse_model_json has returned or raised
ParseDone == pj_pc = "done"

\* C27: a text whose "line" values hold unescaped inner quotes, none of them
\* followed by , or }, is recovered by parse_model_json to the object that
\* has those quotes as characters of the line.
C27_QuotesRecovered ==
    (ParseDone /\ pj_how = <<"raw", 0>> /\ pj_obj \in QuotedLines)
        => pj_result = Returns(pj_obj)

\* the text is a complete object of which only closers at the end are missing
OnlyClosersMissing ==
    /\ pj_how[1] = "cut"
    /\ LET t == Render(pj_obj, FALSE)
       IN /\ pj_how[2] < Len(t)
          /\ \A i \in (Len(t) - pj_how[2] + 1)..Len(t) : t[i] \in {"}", "]"}

\* where the loop of _balance_json_delimiters stands at the end of s
BalanceEnd(s) ==
    BalanceScan(s, 1, Len(s),
                [stack |-> <<>>, in_str |-> FALSE, esc |-> FALSE, bad |-> FALSE])

\* the cleaned text ends inside a string literal or holds a mismatched closer
MidStringOrMismatch == BalanceEnd(pj_s).in_str \/ BalanceEnd(pj_s).bad

\* an object with the missing closers appended comes back as the object
ClosersRecovered ==
    (ParseDone /\ OnlyClosersMissing)
        => /\ pj_result = Returns(pj_obj)
           /\ _balance_json_delimiters(pj_s) = Render(pj_obj, FALSE)

C29_RoundTrip ==
    (ParseDone /\ pj_how[1] \in {"fence", "comment", "prose"})
        => pj_result = Returns(pj_obj)

(***************************************************************************)
(* Claims about the requests of a window.                                  *)
(***************************************************************************)
\* a step that makes a request, and one whose request succeeds or fails
Requests == tr_pc = "request" /\ tr_last' # tr_last
Succeeds == tr_pc = "request" /\ tr_pc' = "outer"
Fails == tr_pc = "request" /\ tr_pc' # "outer" /\ tr_last' # tr_last

Entry(g, role) == [group_id |-> g.group_id, role |-> role]

\* the ids of the payload entries with role translate, in their order
TranslateIds(payload) ==
    LET es == SelectSeq(payload, LAMBDA e : e.role = "translate")
    IN [k \in 1..Len(es) |-> es[k].group_id]

\* C31: every request of a window carries, in this order, the window's
\* context_before as context, the chunk as translate, the rest of the
\* unprocessed focus after the chunk as context and the window's
\* context_after as context; the ids with role translate are those of the
\* chunk; the first request of a window has the whole focus as its chunk.
C31_PayloadOrder ==
    [][Requests =>
        LET pl == tr_last'.payload
            b == Len(tr_ctx.before)
            c == Len(tr_cur_focus)
            r == Len(tr_focus_remaining) - c
            a == Len(tr_ctx.after)
        IN  /\ Len(pl) = b + c + r + a
            /\ \A k \in 1..b : pl[k] = Entry(tr_ctx.before[k], "context")
            /\ \A k \in 1..c : pl[b + k] = Entry(tr_cur_focus[k], "translate")
            /\ \A k \in 1..r :
                   pl[b + c + k] = Entry(tr_focus_remaining[c + k], "context")
            /\ \A k \in 1..a :
                   pl[b + c + r + k] = Entry(tr_ctx.after[k], "context")
            /\ TranslateIds(pl) = GroupIdsOf(tr_cur_focus)
            /\ tr_last'.expected = TranslateIds(pl)
            /\ tr_last = NoRequest => TranslateIds(pl) = GroupIdsOf(tr_focus)
    ]_vars

\* a request for a shrunken chunk of a window with context on both sides
C31_Witness ==
    /\ tr_ctx # NoContext /\ tr_last # NoRequest
    /\ Len(tr_last.expected) >= 1 /\ Len(tr_last.context_after) >= 2
    /\ tr_last.payload[1].role = "context"
    /\ tr_last.payload[Len(tr_last.payload)].group_id = Len(tr_focus) + 2

IsPrefix(xs, ys) == Len(xs) <= Len(ys) /\ xs = SubSeq(ys, 1, Len(xs))
IsSuffix(xs, ys) ==
    Len(xs) <= Len(ys) /\ xs = SubSeq(ys, Len(ys) - Len(xs) + 1, Len(ys))

\* C32: at every request the chunk is a non-empty prefix of the unprocessed
\* focus and the unprocessed focus is a suffix of the window's focus; a
\* successful chunk is taken off the front of the unprocessed focus, the
\* chunk after it is the whole remainder and its attempt counter is 0; the
\* groups counted as translated are the focus in front of the unprocessed part.
C32_ChunkIsPrefix ==
    /\ [](tr_pc = "request" =>
            tr_cur_focus # <<>> /\ IsPrefix(tr_cur_focus, tr_focus_remaining))
    /\ [](tr_pc \in {"outer", "request", "done", "failed"} =>
            /\ IsSuffix(tr_focus_remaining, tr_focus)
            /\ tr_translated = Len(tr_focus) - Len(tr_focus_remaining))
    /\ [][Succeeds => tr_focus_remaining = tr_cur_focus \o tr_focus_remaining']_vars
    /\ [][(tr_pc = "outer" /\ tr_pc' = "request") =>
             tr_cur_focus' = tr_focus_remaining /\ tr_attempt' = 0]_vars

\* after a chunk smaller than the focus succeeded, the remainder of several
\* groups is the new chunk
C32_Witness ==
    /\ tr_pc = "request" /\ tr_attempt = 0 /\ tr_last.ok
    /\ tr_translated >= 1 /\ Len(tr_cur_focus) >= 2
    /\ tr_cur_focus = tr_focus_remaining

\* 2 * (R + 1) for the window in hand
FailureCap == 2 * (tr_max_retries + 1)

\* C33: a window never makes more than 2 * (R + 1) failed requests in a row;
\* it fails at failure R + 1 in a row when the chunk is then a single group
\* and otherwise at failure 2 * (R + 1) in a row, and at no other; a window
\* of n focus groups makes at most n successful and n * 2 * (R + 1) failed
\* requests.
C33_BoundedFailures ==
    /\ [](tr_fails.run <= FailureCap)
    /\ [](tr_fails.succeeded <= Len(tr_focus))
    /\ [](tr_fails.failed <= Len(tr_focus) * FailureCap)
    /\ [][Fails =>
            LET n == tr_fails'.run IN
            /\ n = tr_fails.run + 1
            /\ (tr_pc' = "failed") =
                   \/ n = tr_max_retries + 1 /\ Len(tr_cur_focus) = 1
                   \/ n = FailureCap]_vars

\* a window with retries has failed at failure 2 * (R + 1) in a row, after a
\* chunk of it had succeeded
C33_Witness ==
    /\ tr_pc = "failed" /\ tr_max_retries >= 1
    /\ tr_fails.run = FailureCap /\ tr_fails.succeeded >= 1

\* the elements of the answer that name a group of the chunk
FocusOnly(resp, ids) ==
    Answer(SelectSeq(DictGet(resp.obj, "translations").xs,
                     LAMBDA e : ItemGid(e, Range(ids)) # Nothing))

\* C34: a successful chunk writes entries only for positions of the groups
\* of the chunk and leaves the entries of earlier chunks as they were; what
\* it writes is what the answer without its elements for context groups and
\* unknown ids would have written.
C34_OnlyChunkPositions ==
    [][Succeeds =>
        LET resp == tr_last'.resp
            ids == GroupIdsOf(tr_cur_focus)
            plain == _translate_focus_window(tr_cur_focus, FocusOnly(resp, ids))
        IN  /\ (DOMAIN tr_out_by_pos') \ (DOMAIN tr_out_by_pos)
                   \subseteq PositionsOf(tr_cur_focus)
            /\ DOMAIN tr_out_by_pos \cap PositionsOf(tr_cur_focus) = {}
            /\ \A p \in DOMAIN tr_out_by_pos :
                   p \in DOMAIN tr_out_by_pos' /\ tr_out_by_pos'[p] = tr_out_by_pos[p]
            /\ plain.ok
            /\ (DOMAIN tr_out_by_pos') \ (DOMAIN tr_out_by_pos) = DOMAIN plain.value
            /\ \A p \in DOMAIN plain.value : tr_out_by_pos'[p] = plain.value[p]
    ]_vars

\* the second chunk of a window succeeded on an answer that also held
\* elements for the group before the focus and the group after the chunk
C34_Witness ==
    /\ tr_pc = "outer" /\ tr_last.ok /\ tr_ctx # NoContext
    /\ tr_translated > Len(tr_last.expected)
    /\ Len(DictGet(tr_last.resp.obj, "translations").xs) > Len(tr_last.expected)

(***************************************************************************)
(* Progress of the Scheduler.                                              *)
(***************************************************************************)
Tasks == 1..Len(sc_task)
Ended == sc_pc \in {"returned", "raised"}

\* the permits out and the permits left make up the semaphore
GateAccounted ==
    sc_pc # "start" => sc_sem + Cardinality(InFlight) = SemValue(sc_concurrency)

\* C35 as stated: every window task acquires the gate and finishes in the
\* end, and translate_items_with_windows returns the map or raises in the
\* end; the gate is given back when a window finishes or fails.
C35_EveryWindowFinishes ==
    /\ <>(sc_pc # "start" /\ \A w \in Tasks :
              Finished(w) /\ sc_task[w].acquired = 1)
    /\ <>Ended
    /\ []GateAccounted

\* C35, amended: translate_items_with_windows returns the map or raises in
\* the end and no window task is left waiting; when it returns, every window
\* task has acquired the gate and finished; when it raises, the tasks still
\* waiting or in flight are cancelled, and one that was waiting never
\* acquires the gate; the gate is given back when a window finishes, fails
\* or is cancelled.
C35_EndsOrCancels ==
    /\ <>(Ended /\ \A w \in Tasks :
              sc_task[w].pc \in {"done", "failed", "cancelled"})
    /\ [](sc_pc = "returned" =>
              \A w \in Tasks : sc_task[w].pc = "done" /\ sc_task[w].acquired = 1)
    /\ []((\E w \in Tasks : sc_task[w].pc = "cancelled") => sc_pc = "raised")
    /\ []GateAccounted

\* the run has raised and no task is left: one was cancelled in flight, one
\* before it ever held the gate
C35_Witness ==
    /\ sc_pc = "raised"
    /\ \A w \in Tasks : sc_task[w].pc \in {"done", "failed", "cancelled"}
    /\ \E w \in Tasks : sc_task[w].pc = "cancelled" /\ sc_task[w].acquired = 0
    /\ \E w \in Tasks : sc_task[w].pc = "cancelled" /\ sc_task[w].acquired = 1

(***************************************************************************)
(* Boundaries of the groups of group_subtitles.                            *)
(***************************************************************************)

\* groups holds the scan's result while the merge pass runs and the returned
\* list once group_subtitles has returned
Grouped == gpc \in {"merge", "done"}

\* line k starts with a dialogue dash and line k - 1 does not
NewTurnAt(k) ==
    /\ k \in 2..Len(items)
    /\ _starts_dash(Strip(items[k].Line))
    /\ ~_starts_dash(Strip(items[k - 1].Line))

OpensGroup(k) ==
    \E j \in 1..Len(groups) :
        /\ groups[j].positions # <<>>
        /\ groups[j].positions[1] = items[k].Position

ClosesGroup(k) ==
    \E j \in 1..Len(groups) :
        /\ groups[j].positions # <<>>
        /\ groups[j].positions[Len(groups[j].positions)] = items[k].Position

\* C36: in the list of groups after the scan and in the list returned after
\* the merge pass, every line that starts with a dialogue dash and directly
\* follows a line that does not start with one is the first position of its
\* group.
C36_DashOpensGroup ==
    Grouped => \A k \in 1..Len(items) : NewTurnAt(k) => OpensGroup(k)

\* a returned list in which the merge pass merged a group away and kept a
\* tiny new speaker turn apart from a line that does not end a phrase
C36_Witness ==
    /\ gpc = "done" /\ Len(groups) < mi
    /\ \E k \in 1..Len(items) :
           /\ NewTurnAt(k) /\ OpensGroup(k)
           /\ IsTiny(Strip(items[k].Line), settings)
           /\ ~_ends_phrase(items[k - 1].Line)

\* C37: in the list of groups after the scan and in the list returned after
\* the merge pass, every line that ends in terminal punctuation is the last
\* position of its group.
C37_PhraseClosesGroup ==
    Grouped =>
        \A k \in 1..Len(items) : _ends_phrase(items[k].Line) => ClosesGroup(k)

\* a returned list in which a tiny fragment directly follows a line ending in
\* terminal punctuation and was not merged across it, while another group was
\* merged away
C37_Witness ==
    /\ gpc = "done" /\ Len(groups) < mi
    /\ \E k \in 1..(Len(items) - 1) :
           /\ _ends_phrase(items[k].Line) /\ ClosesGroup(k)
           /\ ~_is_music_only(items[k + 1].Line)
           /\ ~_starts_dash(Strip(items[k + 1].Line))
           /\ ~_contains_multi_speaker(Strip(items[k + 1].Line))
           /\ IsTiny(Strip(items[k + 1].Line), settings)

\* line k is a two-speaker line that step 2 of the scan isolates
IsolatedAt(k) ==
    /\ k \in 1..Len(items)
    /\ ~_is_music_only(LineAt(k))
    /\ IsolateMultiSpeaker(LineAt(k), NextLineAt(k))

\* C38: a two-speaker line that the scan isolates is the only position of its
\* group in the returned list.
C38_IsolatedStaysSingleton ==
    gpc = "done" =>
        \A k \in 1..Len(items) :
            IsolatedAt(k) =>
                \E j \in 1..Len(groups) : groups[j].positions = <<items[k].Position>>

(***************************************************************************)
(* The chunks of split_greedy.                                             *)
(***************************************************************************)

\* the number of words in the first k chunks: the value of wi once position k
\* has had its turn
WordsIn(chunks, k) == Sum([j \in 1..k |-> Len(Split(chunks[j]))])

\* C39: for every position of split_greedy that has had its turn and is not
\* the last: if words remain after its chunk, the chunk has at least one word
\* and at least min_chunk_chars characters; and the chunk is empty exactly
\* when no word was left at its turn.
C39_ChunkMeetsMinimum ==
    (sp_pc \in {"greedy", "zip", "done"} /\ sp_targets # <<>>) =>
        \A k \in 1..Len(sp_chunks) :
            k < Len(sp_targets) =>
                /\ WordsIn(sp_chunks, k) < Len(sp_words) =>
                       /\ Len(Split(sp_chunks[k])) >= 1
                       /\ Len(sp_chunks[k]) >= sp_settings.min_chunk_chars
                /\ sp_chunks[k] = <<>> <=> WordsIn(sp_chunks, k - 1) >= Len(sp_words)

\* the first chunk went past its target to reach the minimum, took two words
\* or more, and left words for the positions after it
C39_Witness ==
    /\ sp_pc = "zip" /\ Len(sp_targets) >= 2
    /\ Len(Split(sp_chunks[1])) >= 2
    /\ Len(sp_chunks[1]) > sp_targets[1]
    /\ WordsIn(sp_chunks, 1) < Len(sp_words)

(***************************************************************************)
(* Termination of the redistribution loops.                                *)
(***************************************************************************)

\* a target can still move towards the limit of the loop in hand
CanMove ==
    \E i \in 1..Len(sp_targets) :
        IF sp_dir = 1 THEN sp_targets[i] < Limit ELSE sp_targets[i] > Limit

Moved == {i \in 1..Len(sp_targets) : sp_targets'[i] # sp_targets[i]}

\* the units moved so far: the distance of the targets from the initial ones
UnitsMoved ==
    LET initial == InitialTargets(TotalChars, Durs(sp_positions, sp_durations),
                                  MinT, MaxT)
    IN  Sum([i \in 1..Len(sp_targets) |-> sp_dir * (sp_targets[i] - initial[i])])

\* budget = cap_total - cur_total, or over = cur_total - cap_total, at the start
InitialLeft ==
    LET initial == InitialTargets(TotalChars, Durs(sp_positions, sp_durations),
                                  MinT, MaxT)
    IN  sp_dir * (Min2(TotalChars, MaxT * Len(sp_positions)) - Sum(initial))

\* C40: the redistribution loops of _targets_weighted_by_duration terminate
\* for every input: inside a loop a step is always possible, and the passes
\* of a loop are bounded by the amount outstanding at its start, the units
\* moved so far and the amount outstanding adding up to it.  While a
\* redistribution loop runs the outstanding amount is never negative; each
\* pass that finds a target below max (grow) or above min (shrink) moves at
\* least one target, each moved target by exactly one unit towards the
\* limit, and reduces the outstanding amount by the number of targets moved;
\* a pass that finds none, or an outstanding amount of zero, ends the loop
\* with the targets as they are; the targets returned are those of the
\* function.
C40_LoopsTerminate ==
    /\ [](sp_pc = "adjust" => ENABLED NextAdjust)
    /\ [](sp_pc = "adjust" =>
            /\ sp_left >= 0 /\ sp_dir \in {1, -1}
            /\ UnitsMoved + sp_left = InitialLeft)
    /\ [][sp_pc = "adjust" =>
            IF sp_left > 0 /\ CanMove
            THEN /\ sp_pc' = "adjust"
                 /\ Moved # {}
                 /\ \A i \in Moved : sp_targets'[i] = sp_targets[i] + sp_dir
                 /\ sp_left' = sp_left - Cardinality(Moved)
                 /\ sp_left' < sp_left
            ELSE sp_pc' = "returned" /\ sp_targets' = sp_targets]_vars
    /\ [](sp_pc = "returned" =>
            sp_targets = _targets_weighted_by_duration(sp_positions, sp_text,
                                                       sp_durations, sp_settings))

\* the shrink loop made two passes or more and then stopped for want of a
\* target above min, with overshoot still outstanding
C40_Witness ==
    /\ sp_pc = "returned" /\ sp_dir = -1 /\ sp_left > 0
    /\ \E i \in 1..Len(sp_targets) :
           InitialTargets(TotalChars, Durs(sp_positions, sp_durations),
                          MinT, MaxT)[i] - sp_targets[i] >= 2

=============================================================================
